---- MODULE Spec2Model ----
(***************************************************************************)
(* A model of the SLA dashboard and the assignment-group workload dialog   *)
(* of the ServiceNow-style client, together with the SLA evaluator and     *)
(* aggregator the dashboard reads from.                                    *)
(*                                                                         *)
(* The client components (SLADashboard, AssignmentGroups, SLADefinitions)  *)
(* are translated from their source.  The evaluator, the aggregator and    *)
(* the ticket store live behind the REST API; they are modelled from the   *)
(* specification and are marked so where they are defined.                 *)
(***************************************************************************)
EXTENDS Integers, Sequences, FiniteSets, TLC

(***************************************************************************)
(* Bounds of the model.                                                    *)
(***************************************************************************)
MaxTime == 70
MaxFetches == 1
MaxAssigned == 10
MaxGroups == 2
MaxPolicies == 2
MaxClicks == 2
MaxSubmits == 2
MaxKbActions == 2
MaxNotifClicks == 3

(***************************************************************************)
(* Nullable values: a JavaScript null/undefined is the empty sequence, a   *)
(* present value v is the one-element sequence <<v>>.                      *)
(***************************************************************************)
None == <<>>
Some(v) == <<v>>
IsNull(x) == x = <<>>
Val(x) == x[1]
NoMessage == "null"

TicketIds == {1, 2}
\* The tickets of the store the dashboard is checked against.
DashboardTicketIds == {1}
\* The instants the clock visits, in minutes, up to MaxTime.
Instants == {0, 50, 60, 70, MaxTime}
Metrics == {"response", "resolution"}

(***************************************************************************)
(* SLA policies held by the policy store (from the specification).  The    *)
(* first leaves the warning threshold unset, the second sets it, the third *)
(* is inactive.                                                            *)
(***************************************************************************)
DefaultWarningThreshold == 75

Policies ==
  { [id |-> 1, category |-> Some("hardware"), priority |-> Some("high"),
     response_target_minutes |-> 20, resolution_target_minutes |-> 60,
     warning_threshold_percent |-> None, active |-> TRUE],
    [id |-> 2, category |-> Some("software"), priority |-> None,
     response_target_minutes |-> 60, resolution_target_minutes |-> 80,
     warning_threshold_percent |-> Some(50), active |-> TRUE],
    [id |-> 3, category |-> Some("network"), priority |-> None,
     response_target_minutes |-> 10, resolution_target_minutes |-> 20,
     warning_threshold_percent |-> Some(75), active |-> FALSE] }

\* The (category, priority) pairs tickets are created with.
TicketKinds ==
  { <<"hardware", "high">>, <<"software", "low">>, <<"network", "low">> }

VARIABLES
  now,               \* Clock: the current time, in minutes
  tickets,           \* Ticket Store: ticket id -> ticket record
  breaches,          \* SLADashboard state
  warnings,
  loading,
  error,
  selectedTicket,
  ticketSLA,
  detailLoading,
  detailDialogOpen,
  slaCalls,          \* fetchSLAData invocations awaiting their responses
  fetchCount,        \* number of fetchSLAData invocations so far
  detailCall,        \* fetchTicketSLA invocation awaiting its response
  scanned,           \* history: the lists on screen were set from a response
  definitions,       \* SLADefinitions state
  definitionsLoading,
  definitionsError,
  selectedDefinition,
  definitionDialogOpen,
  definitionsCall,   \* fetchDefinitions invocations awaiting their response
  definitionFetchCount,
  groups,            \* AssignmentGroups state
  groupsLoading,
  groupsCall,        \* fetchGroups invocations awaiting their response
  groupFetchCount,   \* number of fetchGroups invocations so far
  workload,
  workloadLoading,
  workloadDialogOpen,
  selectedGroup,
  groupError,
  workloadCall,      \* fetchWorkload invocation awaiting its response
  policyStore,       \* SLA Policy Store: the policies it holds
  token,             \* AuthContext: the token of the session, or none
  location,          \* the router's location: pathname and search
  slaRequests,       \* history: the requests the SLA dashboard has issued
  groupRequests,     \* history: the requests the groups page has issued
  ticketStatus,      \* ticket backend: approval ticket id -> status
  tabValue,          \* MyTickets state
  myTickets,
  pendingApprovalTickets,
  ticketsLoading,
  showApprovalDialog,
  selectedApprovalTicket,
  actionLoading,
  ticketCalls,       \* fetchTickets / fetchPendingApprovalTickets in flight
  updateCalls,       \* handleDirectAction / submitApproval invocations
  ticketCallCount,   \* number of list requests of the page so far
  decisionCount,     \* number of decisions taken on the page so far
  refreshCount,      \* number of clicks on Refresh so far
  lastTabEvent,      \* history: what last chose the tab of the page
  lastDecision,      \* history: how the decision handler that ended last went
  resetFormData,     \* PasswordResetForm: formData
  resetErrors,       \* PasswordResetForm: errors
  resetLoading,      \* PasswordResetForm: loading
  result,
  showResultDialog,
  resetCall,         \* the auto-create request awaiting its response, or none
  notifications,     \* Notifications page
  notifLoading,      \* 'loading' of Notifications
  processing,
  notifError,        \* 'error' of Notifications
  success,
  selectedNotifications,
  confirmDialogOpen,
  processResult,
  notifFetchCalls,   \* fetchNotifications invocations awaiting their response
  processCall,       \* the process request awaiting its response, or none
  notifCallCount,
  notifClickCount,   \* clicks on Refresh and Send so far
  pending,           \* notification backend: the ids still pending
  form,              \* the request form on the screen (its formType), or none
  formData,          \* ServiceRequestForm state
  errors,
  attempt,           \* history: the last handleSubmit of the form
  createCalls,       \* createTicket invocations awaiting their response
  submitCount,       \* number of submissions so far
  createdTickets,    \* ticket backend: the tickets created from forms
  lastAlert,         \* the last alert shown to the user
  articleId,         \* KnowledgeBase: the :articleId of the route, or none
  articles,
  categories,
  selectedArticle,
  searchQuery,
  selectedCategory,
  articlesLoading,   \* 'loading' of KnowledgeBase
  showArticleDialog,
  kbCalls,           \* requests of the page awaiting their response
  kbCallCount,
  kbActionCount,     \* openings, votes, searches and filters so far
  views,             \* knowledge-base backend: views of each article
  helpful_votes,     \* knowledge-base backend: votes of each article
  opens,             \* history: how often the user opened each article
  viewRequests       \* history: GET /knowledge-base/{id} issued per article

storeVars == <<now, tickets>>
slaVars == <<breaches, warnings, loading, error, selectedTicket, ticketSLA,
             detailLoading, detailDialogOpen, slaCalls, fetchCount, detailCall,
             scanned, slaRequests>>
groupVars == <<groups, groupsLoading, groupsCall, groupFetchCount, workload, workloadLoading, workloadDialogOpen, selectedGroup,
               groupError, workloadCall, groupRequests>>
defVars == <<definitions, definitionsLoading, definitionsError,
             selectedDefinition, definitionDialogOpen, definitionsCall,
             definitionFetchCount>>
coreVars == <<storeVars, slaVars, defVars, groupVars>>
policyVars == <<policyStore>>
sessionVars == <<token, location>>
ticketsPageVars == <<tabValue, myTickets, pendingApprovalTickets,
                     ticketsLoading, showApprovalDialog,
                     selectedApprovalTicket, actionLoading, ticketCalls,
                     updateCalls, ticketCallCount, decisionCount, refreshCount,
                     lastTabEvent, lastDecision>>
\* The state of the page but for the decisions in flight.
ticketsPageVars_NoUpdates == <<tabValue, myTickets, pendingApprovalTickets,
                               ticketsLoading, showApprovalDialog,
                               selectedApprovalTicket, actionLoading,
                               ticketCalls, ticketCallCount, decisionCount,
                               refreshCount, lastTabEvent, lastDecision>>
ticketVars == <<ticketStatus, ticketsPageVars>>
formVars == <<form, formData, errors, attempt, createCalls, submitCount,
              createdTickets, lastAlert>>
\* The pages besides the SLA pages.
kbVars == <<articleId, articles, categories, selectedArticle, searchQuery,
            selectedCategory, articlesLoading, showArticleDialog, kbCalls,
            kbCallCount, kbActionCount, views, helpful_votes, opens,
            viewRequests>>
resetVars == <<resetFormData, resetErrors, resetLoading, result,
               showResultDialog, resetCall>>
\* The pages added last.
notifVars == <<notifications, notifLoading, processing, notifError, success,
               selectedNotifications, confirmDialogOpen, processResult,
               notifFetchCalls, processCall, notifCallCount, notifClickCount,
               pending>>
furtherPages == <<resetVars, notifVars>>
otherPages == <<ticketVars, formVars, kbVars, furtherPages>>
\* What the pages and the stores above leave alone.
restVars == <<policyVars, sessionVars, otherPages>>
\* What the policy store's own operations leave alone.
besidesPolicy == <<coreVars, sessionVars, otherPages>>
\* What the tickets page and the ticket backend leave alone.
besidesTickets == <<coreVars, policyVars, token, formVars, kbVars,
                    furtherPages>>
\* What the request forms leave alone.
besidesForms == <<coreVars, policyVars, sessionVars, ticketVars, kbVars,
                  furtherPages>>
\* What the knowledge base leaves alone.
besidesKnowledgeBase == <<coreVars, policyVars, sessionVars, ticketVars,
                          formVars, furtherPages>>
\* What the password reset form leaves alone.
besidesReset == <<coreVars, policyVars, sessionVars, ticketVars, formVars,
                  kbVars, notifVars>>
\* What the notifications page leaves alone.
besidesNotifications == <<coreVars, policyVars, sessionVars, ticketVars,
                          formVars, kbVars, resetVars>>
vars == <<coreVars, restVars>>

(***************************************************************************)
(* SLA Policy Store (from the specification, section 4.1).                 *)
(***************************************************************************)
PolicyMatches(p, category, priority) ==
  /\ p.active
  /\ (IsNull(p.category) \/ p.category = Some(category))
  /\ (IsNull(p.priority) \/ p.priority = Some(priority))

\* 3 = exact, 2 = category only, 1 = priority only, 0 = global default
Specificity(p) ==
  IF ~IsNull(p.category) /\ ~IsNull(p.priority) THEN 3
  ELSE IF ~IsNull(p.category) THEN 2
  ELSE IF ~IsNull(p.priority) THEN 1
  ELSE 0

\* find_policy over the policies a store holds.
find_policy_CategoryLast(store, category, priority) ==
  LET matching == { p \in store : PolicyMatches(p, category, priority) }
      rank(p) == IF Specificity(p) \in {1, 2} THEN 3 - Specificity(p)
                 ELSE Specificity(p)
  IN  IF matching = {} THEN None
      ELSE Some(CHOOSE p \in matching :
                  \A q \in matching :
                     \/ rank(q) < rank(p)
                     \/ (rank(q) = rank(p) /\ p.id <= q.id))
find_policy_in(store, category, priority) ==
  LET matching == { p \in store : PolicyMatches(p, category, priority) }
  IN  IF matching = {} THEN None
      ELSE Some(CHOOSE p \in matching :
                  \A q \in matching :
                     \/ Specificity(q) < Specificity(p)
                     \/ (Specificity(q) = Specificity(p) /\ p.id <= q.id))

find_policy(category, priority) == find_policy_in(Policies, category, priority)

\* The scopes a policy of the store may be defined for.
PolicyCategories == { "hardware", "software" }
PolicyPriorities == { "high", "low" }
PolicyScopes ==
  ({None} \cup { Some(c) : c \in PolicyCategories })
    \X ({None} \cup { Some(p) : p \in PolicyPriorities })

\* A policy is added to the store under the next id.
AddPolicy ==
  /\ Cardinality(policyStore) < Cardinality(Policies) + MaxPolicies
  /\ \E scope \in PolicyScopes, active \in BOOLEAN :
       policyStore' = policyStore \cup
         { [id |-> Cardinality(policyStore) + 1,
            category |-> scope[1], priority |-> scope[2],
            response_target_minutes |-> 20, resolution_target_minutes |-> 60,
            warning_threshold_percent |-> None, active |-> active] }
  /\ UNCHANGED besidesPolicy

\* The active flag of a policy is switched.
SetPolicyActive ==
  /\ \E p \in policyStore :
       policyStore' = (policyStore \ {p}) \cup { [p EXCEPT !.active = ~p.active] }
  /\ UNCHANGED besidesPolicy

(***************************************************************************)
(* SLA Evaluator (from the specification, section 4.2).                    *)
(***************************************************************************)
TargetMinutes(policy, metric) ==
  IF metric = "response" THEN policy.response_target_minutes
  ELSE policy.resolution_target_minutes

CompletedAt(ticket, metric) ==
  IF metric = "response" THEN ticket.responded_at ELSE ticket.resolved_at

ElapsedMinutes(ticket, metric, t) ==
  IF metric = "response" /\ ~IsNull(ticket.responded_at)
  THEN Val(ticket.responded_at) - ticket.created_at
  ELSE t - ticket.created_at

WarningThreshold(policy) ==
  IF IsNull(policy.warning_threshold_percent) THEN DefaultWarningThreshold
  ELSE Val(policy.warning_threshold_percent)

\* remaining <= target * (1 - threshold/100), in integer arithmetic
WithinWarning(remaining, target, threshold) ==
  remaining * 100 <= target * (100 - threshold)

LiveStatus(remaining, target, threshold) ==
  IF remaining < 0 THEN "breached"
  ELSE IF WithinWarning(remaining, target, threshold) THEN "warning"
  ELSE "on_track"

HistoricalStatus(ticket, metric, target) ==
  IF Val(CompletedAt(ticket, metric)) - ticket.created_at <= target
  THEN "on_track" ELSE "breached"

\* The status rule applied to the clock alone, as if completion were ignored.
MetricStatus_Live(ticket, policy, metric, t) ==
  LET target == TargetMinutes(policy, metric)
  IN  LiveStatus(target - (t - ticket.created_at), target, WarningThreshold(policy))

MetricStatus(ticket, policy, metric, t) ==
  LET target == TargetMinutes(policy, metric)
      remaining == target - ElapsedMinutes(ticket, metric, t)
  IN  IF ~IsNull(CompletedAt(ticket, metric))
      THEN HistoricalStatus(ticket, metric, target)
      ELSE LiveStatus(remaining, target, WarningThreshold(policy))

evaluate(ticket, policy, metric, t) ==
  IF IsNull(policy)
  THEN [ticket_id |-> ticket.id, metric |-> metric,
        status |-> "not_applicable", target_minutes |-> 0,
        elapsed_minutes |-> 0, remaining_minutes |-> 0]
  ELSE LET target == TargetMinutes(Val(policy), metric)
           elapsed == ElapsedMinutes(ticket, metric, t)
       IN  [ticket_id |-> ticket.id, metric |-> metric,
            status |-> MetricStatus(ticket, Val(policy), metric, t),
            target_minutes |-> target,
            elapsed_minutes |-> elapsed,
            remaining_minutes |-> target - elapsed]

(***************************************************************************)
(* Aggregator (from the specification, section 4.3).                       *)
(***************************************************************************)
IsOpen(ticket) == IsNull(ticket.resolved_at)

Evaluations(ticket, t) ==
  { evaluate(ticket, find_policy(ticket.category, ticket.priority), m, t) :
      m \in Metrics }

IsBreach(ticket, t) ==
  /\ IsOpen(ticket)
  /\ \E e \in Evaluations(ticket, t) : e.status = "breached"

IsWarning(ticket, t) ==
  /\ IsOpen(ticket)
  /\ \E e \in Evaluations(ticket, t) : e.status = "warning"
  /\ \A e \in Evaluations(ticket, t) : e.status # "breached"

\* The remaining minutes a list entry reports: the least among the metrics
\* that put the ticket on the list.
EntryRemaining(ticket, status, t) ==
  LET rs == { e.remaining_minutes :
                e \in { x \in Evaluations(ticket, t) : x.status = status } }
  IN  CHOOSE r \in rs : \A q \in rs : r <= q

EntryBefore(a, b) ==
  \/ a.remaining < b.remaining
  \/ (a.remaining = b.remaining /\ a.ticket_id <= b.ticket_id)

RECURSIVE SortEntries(_)
SortEntries(S) ==
  IF S = {} THEN <<>>
  ELSE LET first == CHOOSE a \in S : \A b \in S : EntryBefore(a, b)
       IN  <<first>> \o SortEntries(S \ {first})

ScanBreaches(store, t) ==
  LET ranked == SortEntries(
        { [ticket_id |-> id, remaining |-> EntryRemaining(store[id], "breached", t)] :
            id \in { i \in DOMAIN store : IsBreach(store[i], t) } })
  IN  [ i \in DOMAIN ranked |->
          [ticket_id |-> ranked[i].ticket_id,
           overdue_minutes |-> 0 - ranked[i].remaining] ]

ScanWarnings(store, t) ==
  LET ranked == SortEntries(
        { [ticket_id |-> id, remaining |-> EntryRemaining(store[id], "warning", t)] :
            id \in { i \in DOMAIN store : IsWarning(store[i], t) } })
  IN  [ i \in DOMAIN ranked |->
          [ticket_id |-> ranked[i].ticket_id,
           minutes_remaining |-> ranked[i].remaining] ]

\* GET /sla/ticket/{id}: the evaluation detail of one ticket.  The overall
\* status is the worst of the two metrics and the time remaining is that of
\* the resolution metric.
OverallStatus(ticket, t) ==
  LET ss == { e.status : e \in Evaluations(ticket, t) }
  IN  IF "breached" \in ss THEN "breached"
      ELSE IF "warning" \in ss THEN "warning"
      ELSE IF "on_track" \in ss THEN "on_track"
      ELSE "not_applicable"

TicketDetail(ticket, t) ==
  LET res == evaluate(ticket, find_policy(ticket.category, ticket.priority),
                      "resolution", t)
  IN  [ticket_id |-> ticket.id,
       status |-> OverallStatus(ticket, t),
       time_remaining_minutes |->
         IF res.status = "not_applicable" THEN None
         ELSE Some(res.remaining_minutes)]

(***************************************************************************)
(* Clock and Ticket Store: the external collaborators the aggregator       *)
(* reads.  Time advances, tickets are created, responded to and resolved.  *)
(***************************************************************************)
Tick ==
  /\ \E t \in Instants :
       /\ now < t
       /\ t <= MaxTime
       /\ now' = t
  /\ UNCHANGED <<tickets, slaVars, defVars, groupVars, restVars>>

\* Ticket ids are handed out in sequence; ids bounds the population.
CreateTicket(ids) ==
  /\ \E kind \in TicketKinds, id \in ids :
       /\ id = Cardinality(DOMAIN tickets) + 1
       /\ tickets' = [ i \in DOMAIN tickets \cup {id} |->
                          IF i = id
                          THEN [id |-> id, category |-> kind[1],
                                priority |-> kind[2], created_at |-> now,
                                responded_at |-> None, resolved_at |-> None]
                          ELSE tickets[i] ]
  /\ UNCHANGED <<now, slaVars, defVars, groupVars, restVars>>

Respond ==
  /\ \E id \in DOMAIN tickets :
       /\ IsNull(tickets[id].responded_at)
       /\ IsNull(tickets[id].resolved_at)
       /\ tickets' = [tickets EXCEPT ![id].responded_at = Some(now)]
  /\ UNCHANGED <<now, slaVars, defVars, groupVars, restVars>>

Resolve ==
  /\ \E id \in DOMAIN tickets :
       /\ IsNull(tickets[id].resolved_at)
       /\ tickets' = [tickets EXCEPT ![id].resolved_at = Some(now)]
  /\ UNCHANGED <<now, slaVars, defVars, groupVars, restVars>>


(***************************************************************************)
(* SLADashboard (frontend/src/components/SLADashboard.js).                 *)
(***************************************************************************)
\* The requests of the pages carry 'Authorization': `Bearer ${token}` with
\* the token of the session; a token that is not there reads "null".
SessionToken == "eyJ"
TemplateText(value) == IF IsNull(value) THEN "null" ELSE Val(value)
Request(endpoint) ==
  [endpoint |-> endpoint,
   authorization |-> [scheme |-> "Bearer", credentials |-> TemplateText(token)]]

FetchSLAError == "Failed to fetch SLA data"
FetchDetailError == "Failed to fetch ticket SLA details"
NetworkError == "Failed to fetch"

\* A response of the REST API: ok is the HTTP status class, body the JSON.
OkResponse(data) == [ok |-> TRUE, body |-> data]
ErrorResponse == [ok |-> FALSE, body |-> [shape |-> "object", items |-> None]]
ArrayBody(items) == [shape |-> "array", items |-> Some(items)]

\* Array.isArray(data) ? data : data.<key> || []
ParseList(body) ==
  IF body.shape = "array" THEN Val(body.items)
  ELSE IF IsNull(body.items) THEN <<>>
  ELSE Val(body.items)

\* fetchSLAData, up to the two requests being issued.  It runs when the
\* component mounts and again whenever the session token changes.
FetchSLAData ==
  /\ fetchCount < MaxFetches
  /\ loading' = TRUE
  /\ error' = NoMessage
  /\ fetchCount' = fetchCount + 1
  /\ slaCalls' = slaCalls \cup
       { [n |-> fetchCount + 1, breachesRes |-> None, warningsRes |-> None] }
  /\ slaRequests' = slaRequests \cup
       { Request("/api/sla/check-breaches"), Request("/api/sla/warnings") }
  /\ UNCHANGED <<scanned, breaches, warnings, selectedTicket, ticketSLA, detailLoading,
                 detailDialogOpen, detailCall, storeVars, defVars, groupVars,
                 restVars>>

\* The backend answers GET /api/sla/check-breaches of one invocation, from
\* the ticket snapshot and the clock at the time it handles the request, or
\* fails with StoreUnavailable.
ServeBreaches ==
  /\ \E c \in slaCalls :
       /\ IsNull(c.breachesRes)
       /\ \E res \in { OkResponse(ArrayBody(ScanBreaches(tickets, now))),
                       ErrorResponse } :
            slaCalls' = (slaCalls \ {c}) \cup
                          { [c EXCEPT !.breachesRes = Some(res)] }
  /\ UNCHANGED <<scanned, breaches, warnings, loading, error, selectedTicket, ticketSLA,
                 detailLoading, detailDialogOpen, fetchCount, detailCall,
                 storeVars, defVars, groupVars, slaRequests, restVars>>

\* The backend answers GET /api/sla/warnings of one invocation.
ServeWarnings ==
  /\ \E c \in slaCalls :
       /\ IsNull(c.warningsRes)
       /\ \E res \in { OkResponse(ArrayBody(ScanWarnings(tickets, now))),
                       ErrorResponse } :
            slaCalls' = (slaCalls \ {c}) \cup
                          { [c EXCEPT !.warningsRes = Some(res)] }
  /\ UNCHANGED <<scanned, breaches, warnings, loading, error, selectedTicket, ticketSLA,
                 detailLoading, detailDialogOpen, fetchCount, detailCall,
                 storeVars, defVars, groupVars, slaRequests, restVars>>

\* One of the two requests is rejected (no connection): Promise.all rejects,
\* the catch block records the message and finally clears the loading flag.
RejectFetchSLAData ==
  /\ \E c \in slaCalls :
       /\ IsNull(c.breachesRes) \/ IsNull(c.warningsRes)
       /\ slaCalls' = slaCalls \ {c}
  /\ error' = NetworkError
  /\ loading' = FALSE
  /\ UNCHANGED <<scanned, breaches, warnings, selectedTicket, ticketSLA, detailLoading,
                 detailDialogOpen, fetchCount, detailCall, storeVars, defVars, groupVars,
                 slaRequests, restVars>>

\* fetchSLAData, from Promise.all resolving to the end of the finally block.
CompleteFetchSLAData ==
  /\ \E c \in slaCalls :
       /\ ~IsNull(c.breachesRes)
       /\ ~IsNull(c.warningsRes)
       /\ slaCalls' = slaCalls \ {c}
       /\ IF ~Val(c.breachesRes).ok \/ ~Val(c.warningsRes).ok
          THEN /\ error' = FetchSLAError
               /\ UNCHANGED <<breaches, warnings, scanned>>
          ELSE /\ breaches' = ParseList(Val(c.breachesRes).body)
               /\ warnings' = ParseList(Val(c.warningsRes).body)
               /\ scanned' = TRUE
               /\ UNCHANGED error
  /\ loading' = FALSE
  /\ UNCHANGED <<selectedTicket, ticketSLA, detailLoading, detailDialogOpen,
                 fetchCount, detailCall, storeVars, defVars, groupVars,
                 slaRequests, restVars>>

\* The Alert's onClose: setError(null).
DismissError ==
  /\ ~loading
  /\ error # NoMessage
  /\ error' = NoMessage
  /\ UNCHANGED <<scanned, breaches, warnings, loading, selectedTicket, ticketSLA,
                 detailLoading, detailDialogOpen, slaCalls, fetchCount,
                 detailCall, storeVars, defVars, groupVars, slaRequests, restVars>>

\* The rows of the two tables.
Rows(list) == { list[i] : i \in DOMAIN list }

\* handleViewDetails(ticket) and fetchTicketSLA up to the request being
\* issued.  The View SLA buttons are rendered when the page is not loading,
\* disabled while a detail request is outstanding, and covered by the modal
\* dialog while it is open.
HandleViewDetails ==
  /\ ~loading
  /\ ~detailLoading
  /\ ~detailDialogOpen
  /\ \E item \in Rows(breaches) \cup Rows(warnings) :
       /\ selectedTicket' = Some(item)
       /\ detailCall' = Some([ticket_id |-> item.ticket_id, res |-> None])
  /\ detailLoading' = TRUE
  /\ slaRequests' = slaRequests \cup { Request("/api/sla/ticket/{id}") }
  /\ UNCHANGED <<scanned, breaches, warnings, loading, error, ticketSLA,
                 detailDialogOpen, slaCalls, fetchCount, storeVars, defVars, groupVars,
                 restVars>>

\* The backend answers GET /api/sla/ticket/{id}.
ServeTicketSLA ==
  /\ ~IsNull(detailCall)
  /\ IsNull(Val(detailCall).res)
  /\ \E res \in { OkResponse(TicketDetail(tickets[Val(detailCall).ticket_id], now)),
                  ErrorResponse } :
       detailCall' = Some([Val(detailCall) EXCEPT !.res = Some(res)])
  /\ UNCHANGED <<scanned, breaches, warnings, loading, error, selectedTicket, ticketSLA,
                 detailLoading, detailDialogOpen, slaCalls, fetchCount,
                 storeVars, defVars, groupVars, slaRequests, restVars>>

\* fetchTicketSLA, from the response to the end of the finally block.
CompleteFetchTicketSLA ==
  /\ ~IsNull(detailCall)
  /\ ~IsNull(Val(detailCall).res)
  /\ LET res == Val(Val(detailCall).res)
     IN  IF ~res.ok
         THEN /\ error' = FetchDetailError
              /\ UNCHANGED <<ticketSLA, detailDialogOpen>>
         ELSE /\ ticketSLA' = Some(res.body)
              /\ detailDialogOpen' = TRUE
              /\ UNCHANGED error
  /\ detailLoading' = FALSE
  /\ detailCall' = None
  /\ UNCHANGED <<scanned, breaches, warnings, loading, selectedTicket, slaCalls,
                 fetchCount, storeVars, defVars, groupVars, slaRequests, restVars>>

HandleCloseDialog ==
  /\ ~loading
  /\ detailDialogOpen
  /\ detailDialogOpen' = FALSE
  /\ selectedTicket' = None
  /\ ticketSLA' = None
  /\ UNCHANGED <<scanned, breaches, warnings, loading, error, detailLoading, slaCalls,
                 fetchCount, detailCall, storeVars, defVars, groupVars,
                 slaRequests, restVars>>

\* formatTimeRemaining without its test for a negative argument.
formatTimeRemaining_NoOverdue(minutes) ==
  IF IsNull(minutes) THEN [text |-> "N/A", a |-> 0, b |-> 0]
  ELSE LET hours == Val(minutes) \div 60
           mins == Val(minutes) % 60
       IN  IF hours > 24
           THEN [text |-> "d h", a |-> hours \div 24, b |-> hours % 24]
           ELSE IF hours > 0
                THEN [text |-> "h m", a |-> hours, b |-> mins]
                ELSE [text |-> "m", a |-> mins, b |-> 0]

\* formatTimeRemaining(minutes).  The text is returned as its parts: the
\* kind of text and the numbers printed in it.
formatTimeRemaining(minutes) ==
  IF IsNull(minutes) THEN [text |-> "N/A", a |-> 0, b |-> 0]
  ELSE IF Val(minutes) < 0 THEN [text |-> "Overdue", a |-> 0, b |-> 0]
  ELSE LET hours == Val(minutes) \div 60
           mins == Val(minutes) % 60
       IN  IF hours > 24
           THEN [text |-> "d h", a |-> hours \div 24, b |-> hours % 24]
           ELSE IF hours > 0
                THEN [text |-> "h m", a |-> hours, b |-> mins]
                ELSE [text |-> "m", a |-> mins, b |-> 0]

\* What the page renders.  While loading only a spinner is returned.
\* String.prototype.toLowerCase over the status names a response may carry.
toLowerCase(str) ==
  CASE str = "BREACHED" -> "breached"
    [] str = "WARNING" -> "warning"
    [] str = "ON_TRACK" -> "on_track"
    [] str = "NOT_APPLICABLE" -> "not_applicable"
    [] OTHER -> str

\* getStatusChip labelling every status it has no colour for 'Unknown'.
getStatusChip_Unknown(status) ==
  LET key == IF IsNull(status) THEN "" ELSE toLowerCase(Val(status))
      known == key \in { "breached", "warning", "on_track" }
  IN  [label |-> IF known THEN Val(status) ELSE "Unknown",
       color |-> CASE key = "breached" -> "error"
                   [] key = "warning" -> "warning"
                   [] key = "on_track" -> "success"
                   [] OTHER -> "default",
       icon |-> CASE key = "breached" -> Some("ErrorIcon")
                  [] key = "warning" -> Some("WarningIcon")
                  [] key = "on_track" -> Some("CheckCircleIcon")
                  [] OTHER -> None]
\* getStatusChip(status): the chip of a status, which may be undefined.
getStatusChip(status) ==
  LET key == IF IsNull(status) THEN "" ELSE toLowerCase(Val(status))
  IN  [label |-> IF IsNull(status) \/ Val(status) = "" THEN "Unknown"
                 ELSE Val(status),
       color |-> CASE key = "breached" -> "error"
                   [] key = "warning" -> "warning"
                   [] key = "on_track" -> "success"
                   [] OTHER -> "default",
       icon |-> CASE key = "breached" -> Some("ErrorIcon")
                  [] key = "warning" -> Some("WarningIcon")
                  [] key = "on_track" -> Some("CheckCircleIcon")
                  [] OTHER -> None]

\* Texts the search reads are sequences of characters.  The ticket number
\* and the title of the list item of a ticket.
TicketNumber(id) ==
  IF id = 1 THEN << "T", "K", "T", "1" >> ELSE << "T", "K", "T", "2" >>
Title(id) == IF id = 1 THEN << "V", "p", "n" >> ELSE << "p", "c" >>

\* The search terms typed into the search field.
SearchTerms == { <<>>, << "1" >>, << "t", "k" >>, << "P" >>, << "x" >> }

lowerChar(ch) ==
  CASE ch = "T" -> "t"
    [] ch = "K" -> "k"
    [] ch = "V" -> "v"
    [] ch = "P" -> "p"
    [] OTHER -> ch
lowerText(text) == [ i \in DOMAIN text |-> lowerChar(text[i]) ]

\* String.prototype.includes
includes(text, part) ==
  \E i \in 1..(Len(text) + 1) :
     /\ i + Len(part) - 1 <= Len(text)
     /\ SubSeq(text, i, i + Len(part) - 1) = part

RECURSIVE Reverse(_)
Reverse(seq) ==
  IF seq = <<>> THEN <<>> ELSE Reverse(Tail(seq)) \o << Head(seq) >>

\* filterData collecting the matches from the last to the first.
filterData_Reversed(data, searchTerm) ==
  IF searchTerm = <<>> THEN data
  ELSE Reverse(SelectSeq(data, LAMBDA item :
         \/ includes(lowerText(TicketNumber(item.ticket_id)), lowerText(searchTerm))
         \/ includes(lowerText(Title(item.ticket_id)), lowerText(searchTerm))))
\* filterData(data) under the search term of the page.
filterData(data, searchTerm) ==
  IF searchTerm = <<>> THEN data
  ELSE SelectSeq(data, LAMBDA item :
         \/ includes(lowerText(TicketNumber(item.ticket_id)), lowerText(searchTerm))
         \/ includes(lowerText(Title(item.ticket_id)), lowerText(searchTerm)))

CardsShown == ~loading
BreachesCard == Len(breaches)
WarningsCard == Len(warnings)
TotalAtRisk == Len(breaches) + Len(warnings)
\* The rate computed as a quotient whose divisor may be zero.
ComplianceRate_Quotient == IF Len(breaches) = 0 THEN "100%" ELSE "NaN%"
\* The rate decided on the warnings list instead of the breaches list.
ComplianceRate_Warnings == IF Len(warnings) = 0 THEN "100%" ELSE "N/A"
\* The rate with the two branches exchanged.
ComplianceRate_Inverted == IF Len(breaches) = 0 THEN "N/A" ELSE "100%"
ComplianceRate == IF Len(breaches) = 0 THEN "100%" ELSE "N/A"
ErrorAlertShown == ~loading /\ error # NoMessage

\* The Time Remaining field of the detail dialog.
DetailTimeRemaining == formatTimeRemaining(Val(ticketSLA).time_remaining_minutes)
DetailShown == ~loading /\ detailDialogOpen /\ ~detailLoading /\ ~IsNull(ticketSLA)


(***************************************************************************)
(* SLADefinitions (the SLA definitions page and its detail dialog).        *)
(***************************************************************************)
FetchDefinitionsError == "Failed to fetch SLA definitions"

\* The JSON of one policy as GET /api/sla/definitions returns it.
DefinitionOf(p) ==
  [id |-> p.id,
   category |-> p.category,
   priority |-> p.priority,
   response_target_minutes |-> p.response_target_minutes,
   resolution_target_minutes |-> p.resolution_target_minutes,
   warning_threshold |-> p.warning_threshold_percent,
   warning_minutes |-> None,
   is_active |-> p.active]

\* The definitions in the order of their ids.
DefinitionList ==
  [ i \in 1..Cardinality(Policies) |->
      DefinitionOf(CHOOSE p \in Policies : p.id = i) ]

\* fetchDefinitions, up to the request being issued.
FetchDefinitions ==
  /\ definitionFetchCount < MaxFetches
  /\ definitionsLoading' = TRUE
  /\ definitionsError' = NoMessage
  /\ definitionFetchCount' = definitionFetchCount + 1
  /\ definitionsCall' = definitionsCall \cup
       { [n |-> definitionFetchCount + 1, res |-> None] }
  /\ UNCHANGED <<definitions, selectedDefinition, definitionDialogOpen,
                 storeVars, slaVars, groupVars, restVars>>

\* The backend answers GET /api/sla/definitions.
ServeDefinitions ==
  /\ \E c \in definitionsCall :
       /\ IsNull(c.res)
       /\ \E res \in { OkResponse(ArrayBody(DefinitionList)),
                       ErrorResponse } :
            definitionsCall' = (definitionsCall \ {c}) \cup
                                 { [c EXCEPT !.res = Some(res)] }
  /\ UNCHANGED <<definitions, definitionsLoading, definitionsError,
                 selectedDefinition, definitionDialogOpen,
                 definitionFetchCount, storeVars, slaVars, groupVars,
                 restVars>>

\* fetchDefinitions, from the response to the end of the finally block.
CompleteFetchDefinitions ==
  /\ \E c \in definitionsCall :
       /\ ~IsNull(c.res)
       /\ definitionsCall' = definitionsCall \ {c}
       /\ IF ~Val(c.res).ok
          THEN /\ definitionsError' = FetchDefinitionsError
               /\ UNCHANGED definitions
          ELSE /\ definitions' = ParseList(Val(c.res).body)
               /\ UNCHANGED definitionsError
  /\ definitionsLoading' = FALSE
  /\ UNCHANGED <<selectedDefinition, definitionDialogOpen,
                 definitionFetchCount, storeVars, slaVars, groupVars,
                 restVars>>

\* handleViewDetails(definition) of the definitions table.
HandleViewDefinition ==
  /\ ~definitionsLoading
  /\ ~definitionDialogOpen
  /\ \E d \in Rows(definitions) : selectedDefinition' = Some(d)
  /\ definitionDialogOpen' = TRUE
  /\ UNCHANGED <<definitions, definitionsLoading, definitionsError,
                 definitionsCall, definitionFetchCount, storeVars, slaVars,
                 groupVars, restVars>>

\* handleCloseDialog of the definitions dialog.
HandleCloseDefinition ==
  /\ ~definitionsLoading
  /\ definitionDialogOpen
  /\ definitionDialogOpen' = FALSE
  /\ selectedDefinition' = None
  /\ UNCHANGED <<definitions, definitionsLoading, definitionsError,
                 definitionsCall, definitionFetchCount, storeVars, slaVars,
                 groupVars, restVars>>

\* formatDuration(minutes), as the kind of text and the numbers in it.
formatDuration(minutes) ==
  IF IsNull(minutes) THEN [text |-> "N/A", a |-> 0, b |-> 0]
  ELSE IF Val(minutes) < 60 THEN [text |-> "minutes", a |-> Val(minutes), b |-> 0]
  ELSE LET hours == Val(minutes) \div 60
           mins == Val(minutes) % 60
       IN  IF hours < 24
           THEN IF mins > 0 THEN [text |-> "h m", a |-> hours, b |-> mins]
                ELSE [text |-> "hours", a |-> hours, b |-> 0]
           ELSE IF hours % 24 > 0
                THEN [text |-> "d h", a |-> hours \div 24, b |-> hours % 24]
                ELSE [text |-> "days", a |-> hours \div 24, b |-> 0]

\* The Warning Threshold field with another default.
WarningThresholdText_Default80(definition) ==
  IF ~IsNull(definition.warning_threshold) /\ Val(definition.warning_threshold) # 0
  THEN [text |-> "%", a |-> Val(definition.warning_threshold), b |-> 0]
  ELSE IF ~IsNull(definition.warning_minutes) /\ Val(definition.warning_minutes) # 0
       THEN formatDuration(definition.warning_minutes)
       ELSE [text |-> "% of target", a |-> 80, b |-> 0]

\* The Warning Threshold field of the dialog:
\*   warning_threshold ? `${warning_threshold}%`
\*     : warning_minutes ? formatDuration(warning_minutes) : '75% of target'
WarningThresholdText(definition) ==
  IF ~IsNull(definition.warning_threshold) /\ Val(definition.warning_threshold) # 0
  THEN [text |-> "%", a |-> Val(definition.warning_threshold), b |-> 0]
  ELSE IF ~IsNull(definition.warning_minutes) /\ Val(definition.warning_minutes) # 0
       THEN formatDuration(definition.warning_minutes)
       ELSE [text |-> "% of target", a |-> 75, b |-> 0]

DefinitionShown ==
  ~definitionsLoading /\ definitionDialogOpen /\ ~IsNull(selectedDefinition)

(***************************************************************************)
(* Numbers of the workload dialog.  A JavaScript number is an exact        *)
(* fraction n/d with d > 0, or NaN.  For the capacities and ticket counts  *)
(* of this model the double (a / c) * 100 compares with 50, 70, 90 and 100 *)
(* exactly as the fraction 100a/c does.                                    *)
(***************************************************************************)
Number(n, d) == [kind |-> "num", n |-> n, d |-> d]
NaN == [kind |-> "nan", n |-> 0, d |-> 1]
IsNaN(x) == x.kind = "nan"

\* x >= k and x < k for an integer k; every comparison with NaN is false.
AtLeast(x, k) == ~IsNaN(x) /\ x.n >= k * x.d
Below(x, k) == ~IsNaN(x) /\ x.n < k * x.d
\* x <= y
LessEq(x, y) == ~IsNaN(x) /\ ~IsNaN(y) /\ x.n * y.d <= y.n * x.d

\* The operand of || counts as absent when it is undefined, 0 or NaN.
Falsy(x) == IsNull(x) \/ IsNaN(Val(x)) \/ Val(x).n = 0

\* (a / c) * 100 where a may be undefined
PercentOf(a, c) ==
  IF IsNull(a) \/ IsNaN(Val(a)) THEN NaN
  ELSE Number(Val(a).n * c.d * 100, Val(a).d * c.n)

DefaultCapacity == 10

(***************************************************************************)
(* Workload Calculator (from the specification, section 4.4): the status   *)
(* the backend reports for a percentage.                                   *)
(***************************************************************************)
WorkloadStatus(pct) ==
  IF AtLeast(pct, 90) THEN "overloaded"
  ELSE IF AtLeast(pct, 50) THEN "busy"
  ELSE "available"

GroupIds == 1..MaxGroups
Capacities == { None, Some(Number(0, 1)), Some(Number(4, 1)), Some(Number(10, 1)) }

GroupCapacity(max_capacity) ==
  IF Falsy(max_capacity) THEN Number(DefaultCapacity, 1) ELSE Val(max_capacity)

\* One agent of a workload response.  The ticket count comes under the name
\* assigned_tickets or under its alias ticket_count; workload_percentage and
\* status are optional.
AgentRecord(id, count, alias, withPercent, withStatus, cap) ==
  LET pct == PercentOf(Some(Number(count, 1)), GroupCapacity(cap))
  IN  [id |-> id,
       assigned_tickets |-> IF alias THEN None ELSE Some(Number(count, 1)),
       ticket_count |-> IF alias THEN Some(Number(count, 1)) ELSE None,
       workload_percentage |-> IF withPercent THEN Some(pct) ELSE None,
       status |-> IF withStatus THEN Some(WorkloadStatus(pct)) ELSE None]

\* The responses of GET /api/assignment-groups/{id}/workload: one or two
\* agents, all agents of a response in the same shape.
WorkloadResponsesOf(cap, alias, withPercent, withStatus) ==
  LET agent(id, count) ==
        AgentRecord(id, count, alias, withPercent, withStatus, cap)
  IN  { [max_capacity |-> cap, agents |-> <<agent(1, c1)>>] :
          c1 \in 0..MaxAssigned }
      \cup
      { [max_capacity |-> cap, agents |-> <<agent(1, c[1]), agent(2, c[2])>>] :
          c \in (0..MaxAssigned) \X (0..MaxAssigned) }

WorkloadResponses ==
  UNION { WorkloadResponsesOf(cap, s[1], s[2], s[3]) :
            cap \in Capacities, s \in BOOLEAN \X BOOLEAN \X BOOLEAN }


(***************************************************************************)
(* AssignmentGroups (the assignment groups page and its workload dialog).  *)
(***************************************************************************)
FetchGroupsError == "Failed to fetch assignment groups"
FetchWorkloadError == "Failed to fetch workload data"

\* fetchGroups, up to the request being issued.
FetchGroups ==
  /\ groupFetchCount < MaxFetches
  /\ groupsLoading' = TRUE
  /\ groupError' = NoMessage
  /\ groupFetchCount' = groupFetchCount + 1
  /\ groupsCall' = groupsCall \cup { [n |-> groupFetchCount + 1, res |-> None] }
  /\ groupRequests' = groupRequests \cup { Request("/api/assignment-groups") }
  /\ UNCHANGED <<groups, workload, workloadLoading, workloadDialogOpen,
                 selectedGroup, workloadCall, storeVars, slaVars, defVars,
                 restVars>>

\* The backend answers GET /api/assignment-groups.
ServeGroups ==
  /\ \E c \in groupsCall :
       /\ IsNull(c.res)
       /\ \E res \in { OkResponse(ArrayBody([i \in GroupIds |-> i])),
                       OkResponse(ArrayBody(<<>>)), ErrorResponse } :
            groupsCall' = (groupsCall \ {c}) \cup { [c EXCEPT !.res = Some(res)] }
  /\ UNCHANGED <<groups, groupsLoading, groupFetchCount, groupError, workload,
                 workloadLoading, workloadDialogOpen, selectedGroup,
                 workloadCall, storeVars, slaVars, defVars, groupRequests, restVars>>

\* fetchGroups, from the response to the end of the finally block.
CompleteFetchGroups ==
  /\ \E c \in groupsCall :
       /\ ~IsNull(c.res)
       /\ groupsCall' = groupsCall \ {c}
       /\ IF ~Val(c.res).ok
          THEN /\ groupError' = FetchGroupsError
               /\ UNCHANGED groups
          ELSE /\ groups' = ParseList(Val(c.res).body)
               /\ UNCHANGED groupError
  /\ groupsLoading' = FALSE
  /\ UNCHANGED <<groupFetchCount, workload, workloadLoading,
                 workloadDialogOpen, selectedGroup, workloadCall, storeVars,
                 slaVars, defVars, groupRequests, restVars>>

\* handleViewWorkload(group) and fetchWorkload up to the request being
\* issued.  The button is rendered when the page is not loading, disabled
\* while a workload request is outstanding and covered by the open dialog.
HandleViewWorkload ==
  /\ ~groupsLoading
  /\ ~workloadLoading
  /\ ~workloadDialogOpen
  /\ \E g \in Rows(groups) :
       /\ selectedGroup' = Some(g)
       /\ workloadCall' = Some([group_id |-> g, res |-> None])
  /\ workloadLoading' = TRUE
  /\ groupRequests' = groupRequests \cup
       { Request("/api/assignment-groups/{id}/workload") }
  /\ UNCHANGED <<groups, groupsLoading, groupsCall, groupFetchCount,
                 groupError, workload, workloadDialogOpen, storeVars, slaVars, defVars,
                 restVars>>

\* The backend answers GET /api/assignment-groups/{id}/workload.
ServeWorkload ==
  /\ ~IsNull(workloadCall)
  /\ IsNull(Val(workloadCall).res)
  /\ \E res \in { OkResponse(w) : w \in WorkloadResponses } \cup { ErrorResponse } :
       workloadCall' = Some([Val(workloadCall) EXCEPT !.res = Some(res)])
  /\ UNCHANGED <<groups, groupsLoading, groupsCall, groupFetchCount,
                 groupError, workload, workloadLoading, workloadDialogOpen,
                 selectedGroup, storeVars, slaVars, defVars, groupRequests, restVars>>

\* fetchWorkload, from the response to the end of the finally block.
CompleteFetchWorkload ==
  /\ ~IsNull(workloadCall)
  /\ ~IsNull(Val(workloadCall).res)
  /\ LET res == Val(Val(workloadCall).res)
     IN  IF ~res.ok
         THEN /\ groupError' = FetchWorkloadError
              /\ UNCHANGED <<workload, workloadDialogOpen>>
         ELSE /\ workload' = Some(res.body)
              /\ workloadDialogOpen' = TRUE
              /\ UNCHANGED groupError
  /\ workloadLoading' = FALSE
  /\ workloadCall' = None
  /\ UNCHANGED <<groups, groupsLoading, groupsCall, groupFetchCount,
                 selectedGroup, storeVars, slaVars, defVars, groupRequests, restVars>>

\* handleCloseDialog of the workload dialog.
HandleCloseWorkload ==
  /\ ~groupsLoading
  /\ workloadDialogOpen
  /\ workloadDialogOpen' = FALSE
  /\ selectedGroup' = None
  /\ workload' = None
  /\ UNCHANGED <<groups, groupsLoading, groupsCall, groupFetchCount,
                 groupError, workloadLoading, workloadCall, storeVars, slaVars, defVars,
                 groupRequests, restVars>>

\* getWorkloadColor with the top boundary excluded.
getWorkloadColor_Above90(percentage) ==
  IF ~IsNaN(percentage) /\ percentage.n > 90 * percentage.d THEN "#d32f2f"
  ELSE IF AtLeast(percentage, 70) THEN "#f57c00"
  ELSE IF AtLeast(percentage, 50) THEN "#fbc02d"
  ELSE "#388e3c"

\* getWorkloadColor(percentage)
getWorkloadColor(percentage) ==
  IF AtLeast(percentage, 90) THEN "#d32f2f"
  ELSE IF AtLeast(percentage, 70) THEN "#f57c00"
  ELSE IF AtLeast(percentage, 50) THEN "#fbc02d"
  ELSE "#388e3c"

\* const workloadPercent = agent.workload_percentage ||
\*   (agent.assigned_tickets / (workload.max_capacity || 10)) * 100
workloadPercent(agent, w) ==
  IF ~Falsy(agent.workload_percentage) THEN Val(agent.workload_percentage)
  ELSE PercentOf(agent.assigned_tickets, GroupCapacity(w.max_capacity))

\* The status chip: agent.status || (workloadPercent >= 90 ? ... : ...)
StatusLabel(agent, w) ==
  IF ~IsNull(agent.status) THEN Val(agent.status)
  ELSE IF AtLeast(workloadPercent(agent, w), 90) THEN "Overloaded"
  ELSE "Available"

\* The Assigned Tickets cell: assigned_tickets || ticket_count || 0
AssignedTicketsCell(agent) ==
  IF ~Falsy(agent.assigned_tickets) THEN Val(agent.assigned_tickets)
  ELSE IF ~Falsy(agent.ticket_count) THEN Val(agent.ticket_count)
  ELSE Number(0, 1)

\* One row of the agent workload table.
AgentRow(agent, w) ==
  [agent_id |-> agent.id,
   assigned |-> AssignedTicketsCell(agent),
   percent |-> workloadPercent(agent, w),
   color |-> getWorkloadColor(workloadPercent(agent, w)),
   label |-> StatusLabel(agent, w),
   reported |-> ~IsNull(agent.status)]

\* The rows on screen: the dialog is open, not loading, and holds agents.
WorkloadShown ==
  ~groupsLoading /\ workloadDialogOpen /\ ~workloadLoading /\ ~IsNull(workload)

WorkloadRows ==
  IF WorkloadShown
  THEN { AgentRow(Val(workload).agents[i], Val(workload)) :
           i \in DOMAIN Val(workload).agents }
  ELSE {}

(***************************************************************************)
(* The session and the routes of the application (AppContent, Navbar).    *)
(* AuthContext is the external auth collaborator: it holds the token,     *)
(* which a login sets and a logout removes.                                *)
(***************************************************************************)
\* The tokens a login may leave in the session.
LoginTokens == { Some(SessionToken), Some("") }

\* AppContent letting every token but null through.
PageRendered_NotNull == ~IsNull(token)
\* AppContent: if (!token) return <Login />
PageRendered == ~IsNull(token) /\ Val(token) # ""

\* The element of a route is rendered.
Rendered(pathname) == PageRendered /\ location.pathname = pathname

SessionPaths == { "/", "/sla-dashboard", "/assignment-groups" }

\* A page that is taken off the screen loses its state; the responses to the
\* requests it has outstanding find no page to set.
UnmountSLADashboard ==
  /\ breaches' = <<>>
  /\ warnings' = <<>>
  /\ loading' = TRUE
  /\ error' = NoMessage
  /\ selectedTicket' = None
  /\ ticketSLA' = None
  /\ detailLoading' = FALSE
  /\ detailDialogOpen' = FALSE
  /\ slaCalls' = {}
  /\ fetchCount' = 0
  /\ detailCall' = None
  /\ scanned' = FALSE
  /\ UNCHANGED slaRequests

UnmountAssignmentGroups ==
  /\ groups' = <<>>
  /\ groupsLoading' = TRUE
  /\ groupsCall' = {}
  /\ groupFetchCount' = 0
  /\ workload' = None
  /\ workloadLoading' = FALSE
  /\ workloadDialogOpen' = FALSE
  /\ selectedGroup' = None
  /\ groupError' = NoMessage
  /\ workloadCall' = None
  /\ UNCHANGED groupRequests

\* The Login page signs the user in.
Login ==
  /\ ~PageRendered
  /\ token' \in LoginTokens
  /\ UNCHANGED <<location, coreVars, policyVars, otherPages>>

\* Logout of the user menu: the pages give way to the Login page.
Logout ==
  /\ PageRendered
  /\ token' = None
  /\ UnmountSLADashboard
  /\ UnmountAssignmentGroups
  /\ UNCHANGED <<location, storeVars, defVars, policyVars, otherPages>>

\* handleNavigation(path) to another route.
HandleNavigation ==
  /\ PageRendered
  /\ \E path \in SessionPaths \ { location.pathname } :
       location' = [pathname |-> path, search |-> ""]
  /\ UnmountSLADashboard
  /\ UnmountAssignmentGroups
  /\ UNCHANGED <<token, storeVars, defVars, policyVars, otherPages>>

\* What the pages do while their route is rendered.
DashboardFetchSLAData == Rendered("/sla-dashboard") /\ FetchSLAData
DashboardHandleViewDetails == Rendered("/sla-dashboard") /\ HandleViewDetails
GroupsFetchGroups == Rendered("/assignment-groups") /\ FetchGroups
GroupsHandleViewWorkload == Rendered("/assignment-groups") /\ HandleViewWorkload

(***************************************************************************)
(* MyTickets (the Tickets & Approvals page) and the ticket backend it      *)
(* talks to.                                                               *)
(***************************************************************************)
ApprovalTicketIds == { 1, 2 }
TicketStatuses == { "pending_approval", "approved", "rejected" }

MyTicketsPath == "/my-tickets"
ApprovalsSearch == "?tab=approvals"

\* searchParams.get('tab')
GetTab(search) == IF search = ApprovalsSearch THEN Some("approvals") ELSE None

\* The effect on searchParams: tab === 'approvals' ? 1 : 0
TabOf(search) == IF GetTab(search) = Some("approvals") THEN 1 ELSE 0

MyTicketsMounted == location.pathname = MyTicketsPath

\* fetchTickets() and fetchPendingApprovalTickets() up to their requests.
ListRequests(n) ==
  { [n |-> n, kind |-> "tickets", res |-> None],
    [n |-> n, kind |-> "pending", res |-> None] }

\* No decision handler has ended yet.
NoDecision ==
  [ n |-> 0, update |-> "none", notified |-> 0, muleSoft |-> "none",
    alert |-> "none", lists |-> 0 ]

\* One of the header buttons Approvals and Tickets: navigate to the page
\* with or without tab=approvals.  Coming from another route the page is mounted:
\* the effect on searchParams sets the tab and the lists are requested.  On
\* the page, searchParams changes only when the search does, and only then
\* does the effect run again.
NavigateMyTickets ==
  \E search \in { ApprovalsSearch, "" } :
    /\ location' = [pathname |-> MyTicketsPath, search |-> search]
    /\ lastTabEvent' = "navigate"
    /\ IF ~MyTicketsMounted
       THEN /\ tabValue' = TabOf(search)
            /\ ticketCalls' = ListRequests(1)
            /\ ticketCallCount' = 1
            /\ UNCHANGED <<myTickets, pendingApprovalTickets, ticketsLoading,
                           showApprovalDialog, selectedApprovalTicket,
                           actionLoading, updateCalls, decisionCount,
                           refreshCount>>
       ELSE /\ tabValue' = IF search # location.search THEN TabOf(search)
                           ELSE tabValue
            /\ UNCHANGED <<myTickets, pendingApprovalTickets, ticketsLoading,
                           showApprovalDialog, selectedApprovalTicket,
                           actionLoading, ticketCalls, updateCalls,
                           ticketCallCount, decisionCount, refreshCount>>
    /\ UNCHANGED <<lastDecision, ticketStatus, besidesTickets>>

\* navigate('/') of the breadcrumb: the page is taken off the screen.
NavigateHome ==
  /\ MyTicketsMounted
  /\ ~ticketsLoading
  /\ ~showApprovalDialog
  /\ location' = [pathname |-> "/", search |-> ""]
  /\ tabValue' = 0
  /\ myTickets' = <<>>
  /\ pendingApprovalTickets' = <<>>
  /\ ticketsLoading' = TRUE
  /\ showApprovalDialog' = FALSE
  /\ selectedApprovalTicket' = None
  /\ actionLoading' = None
  /\ ticketCalls' = {}
  /\ updateCalls' = {}
  /\ ticketCallCount' = 0
  /\ decisionCount' = 0
  /\ refreshCount' = 0
  /\ lastTabEvent' = "none"
  /\ lastDecision' = NoDecision
  /\ UNCHANGED <<ticketStatus, besidesTickets>>

\* handleTabChange(event, newValue): a click on the tab that is not shown.
HandleTabChange ==
  /\ MyTicketsMounted
  /\ ~ticketsLoading
  /\ ~showApprovalDialog
  /\ tabValue' = 1 - tabValue
  /\ lastTabEvent' = "click"
  /\ UNCHANGED <<lastDecision,
                 myTickets, pendingApprovalTickets, ticketsLoading,
                 showApprovalDialog, selectedApprovalTicket, actionLoading,
                 ticketCalls, updateCalls, ticketCallCount, decisionCount,
                 refreshCount, location, ticketStatus, besidesTickets>>

\* The Refresh button: fetchTickets(); fetchPendingApprovalTickets()
HandleRefresh ==
  /\ MyTicketsMounted
  /\ ~ticketsLoading
  /\ ~showApprovalDialog
  /\ decisionCount + refreshCount < MaxClicks
  /\ refreshCount' = refreshCount + 1
  /\ ticketCalls' = ticketCalls \cup ListRequests(ticketCallCount + 1)
  /\ ticketCallCount' = ticketCallCount + 1
  /\ UNCHANGED <<lastDecision,
                 tabValue, myTickets, pendingApprovalTickets, ticketsLoading,
                 showApprovalDialog, selectedApprovalTicket, actionLoading,
                 updateCalls, decisionCount, lastTabEvent, location,
                 ticketStatus, besidesTickets>>

\* The tickets whose status is among the given ones, as the records of a
\* response, in the order of their ids.
TicketList(status, wanted) ==
  LET ticket(id) == [id |-> id, status |-> status[id]]
      ids == { id \in ApprovalTicketIds : status[id] \in wanted }
  IN  IF ids = {} THEN <<>>
      ELSE IF ids = { 1 } THEN << ticket(1) >>
      ELSE IF ids = { 2 } THEN << ticket(2) >>
      ELSE << ticket(1), ticket(2) >>

\* The tickets of the user, of which the model keeps the ids.
MyTicketList == << [id |-> 1], [id |-> 2] >>

\* The backend answers GET /tickets/?my_tickets=true or
\* GET /tickets/?status=pending_approval from the statuses it holds.
ServeTicketList ==
  /\ \E c \in ticketCalls :
       /\ IsNull(c.res)
       /\ LET data == IF c.kind = "tickets" THEN MyTicketList
                      ELSE TicketList(ticketStatus, { "pending_approval" })
          IN  ticketCalls' = (ticketCalls \ {c}) \cup
                { [c EXCEPT !.res = Some([ok |-> TRUE, data |-> data])] }
  /\ UNCHANGED <<lastDecision,
                 tabValue, myTickets, pendingApprovalTickets, ticketsLoading,
                 showApprovalDialog, selectedApprovalTicket, actionLoading,
                 updateCalls, ticketCallCount, decisionCount, refreshCount,
                 lastTabEvent, location, ticketStatus, besidesTickets>>

\* fetchTickets, from the response to the end of the finally block.
CompleteFetchTickets ==
  /\ \E c \in ticketCalls :
       /\ c.kind = "tickets"
       /\ ~IsNull(c.res)
       /\ ticketCalls' = ticketCalls \ {c}
       /\ myTickets' = IF Val(c.res).ok THEN Val(c.res).data ELSE myTickets
  /\ ticketsLoading' = FALSE
  /\ UNCHANGED <<lastDecision,
                 tabValue, pendingApprovalTickets, showApprovalDialog,
                 selectedApprovalTicket, actionLoading, updateCalls,
                 ticketCallCount, decisionCount, refreshCount, lastTabEvent,
                 location, ticketStatus, besidesTickets>>

\* fetchPendingApprovalTickets, from the response on.
CompleteFetchPendingApprovalTickets ==
  /\ \E c \in ticketCalls :
       /\ c.kind = "pending"
       /\ ~IsNull(c.res)
       /\ ticketCalls' = ticketCalls \ {c}
       /\ pendingApprovalTickets' =
            IF Val(c.res).ok THEN Val(c.res).data ELSE pendingApprovalTickets
  /\ UNCHANGED <<lastDecision,
                 tabValue, myTickets, ticketsLoading, showApprovalDialog,
                 selectedApprovalTicket, actionLoading, updateCalls,
                 ticketCallCount, decisionCount, refreshCount, lastTabEvent,
                 location, ticketStatus, besidesTickets>>

\* The rows of the approvals table that take clicks: the tab is shown and
\* no dialog covers it.
ApprovalRows ==
  IF MyTicketsMounted /\ ~ticketsLoading /\ tabValue = 1 /\ ~showApprovalDialog
  THEN { ticket.id : ticket \in Rows(pendingApprovalTickets) }
  ELSE {}

\* const newStatus = action === 'approve' ? 'approved' : 'rejected'
NewStatus(action) == IF action = "approve" THEN "approved" ELSE "rejected"

ApprovalActions == { "approve", "reject" }

\* What MuleSoft does with POST /api/ticket-approval: it answers ok, it
\* answers with an error status, or it cannot be reached.
MuleSoftOutcomes == { "ok", "failed", "unreachable" }

\* notifyMuleSoft(ticket, action, comments) letting the failure of an
\* unreachable MuleSoft out to its caller.
notifyMuleSoft_Throws(outcome) ==
  IF outcome = "unreachable" THEN "thrown" ELSE "returned"
\* notifyMuleSoft(ticket, action, comments): the outcome is logged, and the
\* catch keeps every failure inside.
notifyMuleSoft(outcome) == "returned"

\* The PUT /tickets/{id} of a decision.
UpdateRequest(n, id, action, via) ==
  [n |-> n, ticket_id |-> id, action |-> action,
   status |-> NewStatus(action), via |-> via, stage |-> "put", res |-> None,
   notified |-> 0]

\* handleDirectAction(ticket, action) up to the request being issued.  The
\* buttons of a row are disabled while actionLoading is the row's ticket.
HandleDirectAction ==
  /\ decisionCount + refreshCount < MaxClicks
  /\ \E id \in ApprovalRows, action \in ApprovalActions :
       /\ actionLoading # Some(id)
       /\ actionLoading' = Some(id)
       /\ updateCalls' = updateCalls \cup
            { UpdateRequest(decisionCount + 1, id, action, "direct") }
  /\ decisionCount' = decisionCount + 1
  /\ UNCHANGED <<lastDecision,
                 tabValue, myTickets, pendingApprovalTickets, ticketsLoading,
                 showApprovalDialog, selectedApprovalTicket, ticketCalls,
                 ticketCallCount, refreshCount, lastTabEvent, location,
                 ticketStatus, besidesTickets>>

\* handleApprovalAction(ticket): the approval dialog opens.
HandleApprovalAction ==
  /\ \E id \in ApprovalRows :
       /\ actionLoading # Some(id)
       /\ selectedApprovalTicket' = Some(id)
  /\ showApprovalDialog' = TRUE
  /\ UNCHANGED <<lastDecision,
                 tabValue, myTickets, pendingApprovalTickets, ticketsLoading,
                 actionLoading, ticketCalls, updateCalls, ticketCallCount,
                 decisionCount, refreshCount, lastTabEvent, location,
                 ticketStatus, besidesTickets>>

\* Cancel of the approval dialog.
CancelApprovalDialog ==
  /\ MyTicketsMounted
  /\ showApprovalDialog
  /\ showApprovalDialog' = FALSE
  /\ UNCHANGED <<lastDecision,
                 tabValue, myTickets, pendingApprovalTickets, ticketsLoading,
                 selectedApprovalTicket, actionLoading, ticketCalls,
                 updateCalls, ticketCallCount, decisionCount, refreshCount,
                 lastTabEvent, location, ticketStatus, besidesTickets>>

\* submitApproval(action) up to the request being issued.
SubmitApproval ==
  /\ MyTicketsMounted
  /\ showApprovalDialog
  /\ decisionCount + refreshCount < MaxClicks
  /\ \E action \in ApprovalActions :
       updateCalls' = updateCalls \cup
         { UpdateRequest(decisionCount + 1, Val(selectedApprovalTicket),
                         action, "dialog") }
  /\ decisionCount' = decisionCount + 1
  /\ UNCHANGED <<lastDecision,
                 tabValue, myTickets, pendingApprovalTickets, ticketsLoading,
                 showApprovalDialog, selectedApprovalTicket, actionLoading,
                 ticketCalls, ticketCallCount, refreshCount, lastTabEvent,
                 location, ticketStatus, besidesTickets>>

\* The backend handles PUT /tickets/{id}: it sets the status and answers
\* ok, or it refuses and the status stays.
ServeUpdate ==
  /\ \E u \in updateCalls :
       /\ u.stage = "put"
       /\ IsNull(u.res)
       /\ \E ok \in BOOLEAN :
            /\ updateCalls' = (updateCalls \ {u}) \cup
                 { [u EXCEPT !.res = Some([ok |-> ok])] }
            /\ ticketStatus' = IF ok
                               THEN [ticketStatus EXCEPT ![u.ticket_id] = u.status]
                               ELSE ticketStatus
  /\ UNCHANGED <<ticketsPageVars_NoUpdates, location, besidesTickets>>

\* The decision handlers from the response of the PUT: on success the
\* notification to MuleSoft is sent and awaited; otherwise the error is
\* alerted and, for a direct action, actionLoading is cleared.
CompleteUpdate ==
  /\ \E u \in updateCalls :
       /\ u.stage = "put"
       /\ ~IsNull(u.res)
       /\ IF Val(u.res).ok
          THEN /\ updateCalls' = (updateCalls \ {u}) \cup
                    { [u EXCEPT !.stage = "notify", !.notified = @ + 1] }
               /\ UNCHANGED <<actionLoading, lastDecision>>
          ELSE /\ updateCalls' = updateCalls \ {u}
               /\ lastDecision' =
                    [ n |-> u.n, update |-> "failed", notified |-> u.notified,
                      muleSoft |-> "none", alert |-> "error", lists |-> 0 ]
               /\ actionLoading' = IF u.via = "direct" THEN None
                                   ELSE actionLoading
  /\ UNCHANGED <<tabValue, myTickets, pendingApprovalTickets, ticketsLoading,
                 showApprovalDialog, selectedApprovalTicket, ticketCalls,
                 ticketCallCount, decisionCount, refreshCount, lastTabEvent,
                 location, ticketStatus, besidesTickets>>

\* The decision handlers from the end of notifyMuleSoft, whatever MuleSoft
\* did: the dialog is closed (submitApproval), both lists are requested
\* again, the success is alerted, and actionLoading is cleared
\* (handleDirectAction).  Had notifyMuleSoft thrown, the catch of the
\* handler would alert the error instead.
CompleteNotify ==
  /\ \E u \in updateCalls, outcome \in MuleSoftOutcomes :
       /\ u.stage = "notify"
       /\ updateCalls' = updateCalls \ {u}
       /\ actionLoading' = IF u.via = "direct" THEN None ELSE actionLoading
       /\ IF notifyMuleSoft(outcome) = "returned"
          THEN /\ showApprovalDialog' = IF u.via = "dialog" THEN FALSE
                                        ELSE showApprovalDialog
               /\ ticketCalls' = ticketCalls \cup
                                   ListRequests(ticketCallCount + 1)
               /\ ticketCallCount' = ticketCallCount + 1
               /\ lastDecision' =
                    [ n |-> u.n, update |-> "ok", notified |-> u.notified,
                      muleSoft |-> outcome, alert |-> "success",
                      lists |-> ticketCallCount + 1 ]
          ELSE /\ lastDecision' =
                    [ n |-> u.n, update |-> "ok", notified |-> u.notified,
                      muleSoft |-> outcome, alert |-> "error", lists |-> 0 ]
               /\ UNCHANGED <<showApprovalDialog, ticketCalls, ticketCallCount>>
  /\ UNCHANGED <<tabValue, myTickets, pendingApprovalTickets, ticketsLoading,
                 selectedApprovalTicket, decisionCount, refreshCount,
                 lastTabEvent, location, ticketStatus, besidesTickets>>

(***************************************************************************)
(* ServiceRequestForm and the pages that use it: PasswordResetForm,        *)
(* ProblemReportForm and BusinessAppForm, each handing it an onSubmit, and *)
(* the form on its own (formType 'general', no onSubmit).                  *)
(***************************************************************************)
FormTypes == { "password", "problem", "business", "general" }

\* The pages that pass their handleSubmit as onSubmit.
HasOnSubmit(formType) == formType \in { "password", "problem", "business" }

\* What is typed into a text field: nothing, a blank, or a text.
Texts == { "", " ", "a" }
FormFields == { "shortDescription", "detailedDescription", "contactNumber" }

\* String.prototype.trim
trim(text) == IF text = " " THEN "" ELSE text

EmptyForm == [ f \in FormFields |-> "" ]
NoErrors == [ f \in FormFields |-> "" ]

\* getFormConfig().requiresContact
requiresContact(formType) == formType \in { "password", "problem" }

\* getTicketType()
getTicketType(formType) ==
  IF formType \in { "password", "problem" } THEN "incident"
  ELSE "service_request"

\* validateForm: the errors it finds
newErrors(formType, data) ==
  [ f \in FormFields |->
      CASE f = "shortDescription" ->
             IF trim(data[f]) = "" THEN "Short description is required" ELSE ""
        [] f = "detailedDescription" ->
             IF trim(data[f]) = "" THEN "Please describe your issue" ELSE ""
        [] f = "contactNumber" ->
             IF formType = "problem" /\ trim(data[f]) = ""
             THEN "Contact number is required for problem reports" ELSE "" ]

\* Object.keys(newErrors).length === 0
validateForm(formType, data) == newErrors(formType, data) = NoErrors

\* The browser sends the submit event of the form only when every input
\* marked required holds something: the two descriptions, and the contact
\* number where the form shows it.
RequiredInputsFilled(formType, data) ==
  /\ data["shortDescription"] # ""
  /\ data["detailedDescription"] # ""
  /\ requiresContact(formType) => data["contactNumber"] # ""

NoAlert == [kind |-> "none", ticket_number |-> 0, formType |-> "general"]

\* A form page is opened from the home page.
OpenForm ==
  /\ IsNull(form)
  /\ \E formType \in FormTypes : form' = Some(formType)
  /\ formData' = EmptyForm
  /\ errors' = NoErrors
  /\ attempt' = None
  /\ UNCHANGED <<createCalls, submitCount, createdTickets, lastAlert,
                 besidesForms>>

\* handleInputChange(field, value)
HandleInputChange ==
  /\ ~IsNull(form)
  /\ \E field \in FormFields, value \in Texts :
       /\ field = "contactNumber" => requiresContact(Val(form))
       /\ value # formData[field]
       /\ formData' = [formData EXCEPT ![field] = value]
       /\ errors' = [errors EXCEPT ![field] = ""]
  /\ attempt' = None
  /\ UNCHANGED <<form, createCalls, submitCount, createdTickets, lastAlert,
                 besidesForms>>

\* createTicket(formData): POST /tickets/ with ticket_type getTicketType()
CreateRequest(n, formType) ==
  [ n |-> n, endpoint |-> "/tickets/", formType |-> formType,
    ticket_type |-> getTicketType(formType), res |-> None ]

\* handleSubmit of ServiceRequestForm: validateForm, then onSubmit when the
\* page handed one in (it logs the data and alerts), createTicket otherwise.
HandleSubmit ==
  /\ ~IsNull(form)
  /\ submitCount < MaxSubmits
  /\ RequiredInputsFilled(Val(form), formData)
  /\ LET formType == Val(form)
         passes == validateForm(formType, formData)
     IN /\ errors' = newErrors(formType, formData)
        /\ attempt' = Some([ formType |-> formType, formData |-> formData,
                             submitted |-> passes ])
        /\ submitCount' = IF passes THEN submitCount + 1 ELSE submitCount
        /\ IF passes /\ HasOnSubmit(formType)
           THEN /\ lastAlert' = [ kind |-> "submitted", ticket_number |-> 0,
                                  formType |-> formType ]
                /\ UNCHANGED createCalls
           ELSE IF passes
           THEN /\ createCalls' = createCalls \cup
                     { CreateRequest(submitCount + 1, formType) }
                /\ UNCHANGED lastAlert
           ELSE UNCHANGED <<createCalls, lastAlert>>
  /\ UNCHANGED <<form, formData, createdTickets, besidesForms>>

\* The ticket backend answers POST /tickets/: it creates the ticket and
\* returns it, or answers with an error status.
ServeCreateTicket ==
  \E c \in createCalls :
    /\ IsNull(c.res)
    /\ \/ LET ticket == [ ticket_number |-> Len(createdTickets) + 1,
                          ticket_type |-> c.ticket_type ]
          IN /\ createdTickets' = Append(createdTickets, ticket)
             /\ createCalls' = (createCalls \ {c}) \cup
                  { [c EXCEPT !.res = Some([ok |-> TRUE, ticket |-> ticket])] }
       \/ /\ createCalls' = (createCalls \ {c}) \cup
                  { [c EXCEPT !.res = Some([ok |-> FALSE,
                       ticket |-> [ticket_number |-> 0,
                                   ticket_type |-> c.ticket_type]])] }
          /\ UNCHANGED createdTickets
    /\ UNCHANGED <<form, formData, errors, attempt, submitCount, lastAlert,
                   besidesForms>>

\* createTicket after the response: the alert with the ticket number and
\* navigate('/'), or the error alert.
CompleteCreateTicket ==
  \E c \in createCalls :
    /\ ~IsNull(c.res)
    /\ createCalls' = createCalls \ {c}
    /\ IF Val(c.res).ok
       THEN /\ lastAlert' = [ kind |-> "created",
                              ticket_number |-> Val(c.res).ticket.ticket_number,
                              formType |-> c.formType ]
            /\ form' = None
            /\ formData' = EmptyForm
            /\ errors' = NoErrors
            /\ attempt' = None
       ELSE /\ lastAlert' = [ kind |-> "error", ticket_number |-> 0,
                              formType |-> c.formType ]
            /\ UNCHANGED <<form, formData, errors, attempt>>
    /\ UNCHANGED <<submitCount, createdTickets, besidesForms>>

\* The user leaves the form page for the home page.
LeaveForm ==
  /\ ~IsNull(form)
  /\ form' = None
  /\ formData' = EmptyForm
  /\ errors' = NoErrors
  /\ attempt' = None
  /\ UNCHANGED <<createCalls, submitCount, createdTickets, lastAlert,
                 besidesForms>>

(***************************************************************************)
(* KnowledgeBase page and the knowledge-base backend.                      *)
(***************************************************************************)
ArticleIds == { 1, 2 }
SearchQueries == { "", "vpn" }

\* The article as the backend returns it from its stored counts.
Article(id, db) ==
  [ id |-> id, views |-> db.views[id], helpful_votes |-> db.helpful_votes[id] ]

\* GET /knowledge-base/?search=..&category=..: 'vpn' is found in article 1
\* only, and article 2 alone is of category Hardware.
Matches(id, params) ==
  /\ params.search = "vpn" => id = 1
  /\ params.category = "Hardware" => id = 2

KbList(params, db) ==
  LET one(id) == IF Matches(id, params) THEN <<Article(id, db)>> ELSE <<>>
  IN one(1) \o one(2)

KbCategoryList == << [name |-> "Hardware"] >>

KbRequest(n, kind, id, params) ==
  [ n |-> n, kind |-> kind, id |-> id, params |-> params, res |-> None ]

NoParams == [search |-> "", category |-> ""]

\* fetchArticles with the given query and category, and fetchCategories:
\* the effect on [fetchArticles].
KbListRequests(n, search, category) ==
  { KbRequest(n, "list", 0, [search |-> search, category |-> category]),
    KbRequest(n, "categories", 0, NoParams) }

\* fetchArticle(id): GET /knowledge-base/{id}
ArticleRequest(n, id) == KbRequest(n, "article", id, NoParams)

\* openArticle(article), followed by the effect on [articleId].
OpenArticle ==
  /\ ~showArticleDialog
  /\ kbActionCount < MaxKbActions
  /\ \E k \in 1..Len(articles) :
       LET article == articles[k]
       IN /\ selectedArticle' = Some(article)
          /\ showArticleDialog' = TRUE
          /\ articleId' = Some(article.id)
          /\ opens' = [opens EXCEPT ![article.id] = @ + 1]
          /\ IF articleId' # articleId
             THEN /\ kbCalls' = kbCalls \cup
                       { ArticleRequest(kbCallCount + 1, article.id) }
                  /\ kbCallCount' = kbCallCount + 1
                  /\ viewRequests' =
                       [viewRequests EXCEPT ![article.id] = @ + 1]
             ELSE UNCHANGED <<kbCalls, kbCallCount, viewRequests>>
  /\ kbActionCount' = kbActionCount + 1
  /\ UNCHANGED <<articles, categories, searchQuery, selectedCategory,
                 articlesLoading, views, helpful_votes, besidesKnowledgeBase>>

\* closeArticle
CloseArticle ==
  /\ showArticleDialog
  /\ showArticleDialog' = FALSE
  /\ selectedArticle' = None
  /\ articleId' = None
  /\ UNCHANGED <<articles, categories, searchQuery, selectedCategory,
                 articlesLoading, kbCalls, kbCallCount, kbActionCount, views,
                 helpful_votes, opens, viewRequests, besidesKnowledgeBase>>

\* handleSearchChange, followed by the effect on [fetchArticles].
HandleSearchChange ==
  /\ ~showArticleDialog
  /\ kbActionCount < MaxKbActions
  /\ \E value \in SearchQueries :
       /\ value # searchQuery
       /\ searchQuery' = value
       /\ kbCalls' = kbCalls \cup
            KbListRequests(kbCallCount + 1, value, selectedCategory)
  /\ kbCallCount' = kbCallCount + 1
  /\ kbActionCount' = kbActionCount + 1
  /\ UNCHANGED <<articleId, articles, categories, selectedArticle,
                 selectedCategory, articlesLoading, showArticleDialog, views,
                 helpful_votes, opens, viewRequests, besidesKnowledgeBase>>

\* handleCategoryFilter(category), followed by the effect on [fetchArticles]:
\* the chip of the selected category clears the filter, and 'All' on no
\* filter changes nothing.
HandleCategoryFilter ==
  /\ ~showArticleDialog
  /\ kbActionCount < MaxKbActions
  /\ \E category \in {""} \cup
                      { categories[k].name : k \in 1..Len(categories) } :
       LET next == IF category = selectedCategory THEN "" ELSE category
       IN /\ next # selectedCategory
          /\ selectedCategory' = next
          /\ kbCalls' = kbCalls \cup
               KbListRequests(kbCallCount + 1, searchQuery, next)
  /\ kbCallCount' = kbCallCount + 1
  /\ kbActionCount' = kbActionCount + 1
  /\ UNCHANGED <<articleId, articles, categories, selectedArticle,
                 searchQuery, articlesLoading, showArticleDialog, views,
                 helpful_votes, opens, viewRequests, besidesKnowledgeBase>>

\* markAsHelpful(selectedArticle.id) up to its await: POST .../helpful
MarkAsHelpful ==
  /\ showArticleDialog
  /\ ~IsNull(selectedArticle)
  /\ kbActionCount < MaxKbActions
  /\ kbCalls' = kbCalls \cup
       { KbRequest(kbCallCount + 1, "helpful", Val(selectedArticle).id,
                   [search |-> searchQuery, category |-> selectedCategory]) }
  /\ kbCallCount' = kbCallCount + 1
  /\ kbActionCount' = kbActionCount + 1
  /\ UNCHANGED <<articleId, articles, categories, selectedArticle,
                 searchQuery, selectedCategory, articlesLoading,
                 showArticleDialog, views, helpful_votes, opens, viewRequests,
                 besidesKnowledgeBase>>

\* The knowledge-base backend answers a request of the page, or the request
\* for an article or a vote fails (failures of the two list requests, which
\* leave the lists as they were, are left out). GET /knowledge-base/{id} increments the views of the article and
\* POST /knowledge-base/{id}/helpful its votes; the response carries the
\* counts it was computed from.
ServeKnowledgeBase ==
  \E c \in kbCalls :
    /\ IsNull(c.res)
    /\ \/ /\ views' = IF c.kind = "article"
                       THEN [views EXCEPT ![c.id] = @ + 1] ELSE views
          /\ helpful_votes' = IF c.kind = "helpful"
                               THEN [helpful_votes EXCEPT ![c.id] = @ + 1]
                               ELSE helpful_votes
          /\ kbCalls' = (kbCalls \ {c}) \cup
               { [c EXCEPT !.res = Some([ ok |-> TRUE, views |-> views',
                                          helpful_votes |-> helpful_votes' ])] }
       \/ /\ c.kind \in { "article", "helpful" }
          /\ kbCalls' = (kbCalls \ {c}) \cup
               { [c EXCEPT !.res = Some([ ok |-> FALSE, views |-> views,
                                          helpful_votes |-> helpful_votes ])] }
          /\ UNCHANGED <<views, helpful_votes>>
    /\ UNCHANGED <<articleId, articles, categories, selectedArticle,
                   searchQuery, selectedCategory, articlesLoading,
                   showArticleDialog, kbCallCount, kbActionCount, opens,
                   viewRequests, besidesKnowledgeBase>>

\* fetchArticles after the response
CompleteFetchArticles ==
  \E c \in kbCalls :
    /\ c.kind = "list" /\ ~IsNull(c.res)
    /\ kbCalls' = kbCalls \ {c}
    /\ articles' = IF Val(c.res).ok THEN KbList(c.params, Val(c.res))
                   ELSE articles
    /\ articlesLoading' = FALSE
    /\ UNCHANGED <<articleId, categories, selectedArticle, searchQuery,
                   selectedCategory, showArticleDialog, kbCallCount,
                   kbActionCount, views, helpful_votes, opens, viewRequests,
                   besidesKnowledgeBase>>

\* fetchCategories after the response
CompleteFetchCategories ==
  \E c \in kbCalls :
    /\ c.kind = "categories" /\ ~IsNull(c.res)
    /\ kbCalls' = kbCalls \ {c}
    /\ categories' = IF Val(c.res).ok THEN KbCategoryList ELSE categories
    /\ UNCHANGED <<articleId, articles, selectedArticle, searchQuery,
                   selectedCategory, articlesLoading, showArticleDialog,
                   kbCallCount, kbActionCount, views, helpful_votes, opens,
                   viewRequests, besidesKnowledgeBase>>

\* fetchArticle after the response
CompleteFetchArticle ==
  \E c \in kbCalls :
    /\ c.kind = "article" /\ ~IsNull(c.res)
    /\ kbCalls' = kbCalls \ {c}
    /\ IF Val(c.res).ok
       THEN /\ selectedArticle' = Some(Article(c.id, Val(c.res)))
            /\ showArticleDialog' = TRUE
       ELSE UNCHANGED <<selectedArticle, showArticleDialog>>
    /\ UNCHANGED <<articleId, articles, categories, searchQuery,
                   selectedCategory, articlesLoading, kbCallCount,
                   kbActionCount, views, helpful_votes, opens, viewRequests,
                   besidesKnowledgeBase>>

\* markAsHelpful after its await: the article the handler was called for is
\* the selectedArticle of the render that showed the button, so
\* fetchArticle(articleId) runs, and then fetchArticles().
CompleteMarkAsHelpful ==
  \E c \in kbCalls :
    /\ c.kind = "helpful" /\ ~IsNull(c.res)
    /\ IF Val(c.res).ok
       THEN /\ kbCalls' = (kbCalls \ {c}) \cup
                 { ArticleRequest(kbCallCount + 1, c.id),
                   KbRequest(kbCallCount + 1, "list", 0, c.params) }
            /\ kbCallCount' = kbCallCount + 1
            /\ viewRequests' = [viewRequests EXCEPT ![c.id] = @ + 1]
       ELSE /\ kbCalls' = kbCalls \ {c}
            /\ UNCHANGED <<kbCallCount, viewRequests>>
    /\ UNCHANGED <<articleId, articles, categories, selectedArticle,
                   searchQuery, selectedCategory, articlesLoading,
                   showArticleDialog, kbActionCount, views, helpful_votes,
                   opens, besidesKnowledgeBase>>

(***************************************************************************)
(* PasswordResetForm, the page of its own that asks the ticket backend to  *)
(* create the password reset ticket (/api/tickets/auto-create).            *)
(***************************************************************************)
Urgencies == { "low", "medium", "high", "critical" }
ResetFields == { "username", "reason", "contactNumber" }

EmptyResetForm ==
  [ username |-> "", reason |-> "", contactNumber |-> "", urgency |-> "medium" ]
NoResetErrors == [ f \in ResetFields |-> "" ]

\* The SLA Information panel of the page and the options of the Urgency
\* select: the hours shown for an urgency.
DisplayedSLAHours(urgency) ==
  CASE urgency = "critical" -> 1
    [] urgency = "high" -> 4
    [] urgency = "medium" -> 24
    [] urgency = "low" -> 48

\* sla_hours of the request body
sla_hours(urgency) ==
  IF urgency = "high" THEN 4 ELSE IF urgency = "critical" THEN 1 ELSE 24

\* validateForm of PasswordResetForm: the errors it finds
resetNewErrors(data) ==
  [ f \in ResetFields |->
      IF trim(data[f]) # "" THEN ""
      ELSE CASE f = "username" -> "SAP Username is required"
             [] f = "reason" ->
                  "Please provide a reason for the password reset"
             [] f = "contactNumber" ->
                  "Contact number is required for identity verification" ]

\* handleInputChange(field, value) on a text field
ResetHandleInputChange ==
  /\ ~showResultDialog
  /\ \E field \in ResetFields, value \in Texts :
       /\ value # resetFormData[field]
       /\ resetFormData' = [resetFormData EXCEPT ![field] = value]
       /\ resetErrors' = [resetErrors EXCEPT ![field] = ""]
  /\ UNCHANGED <<resetLoading, result, showResultDialog, resetCall,
                 besidesReset>>

\* handleInputChange('urgency', value) of the Urgency select
ResetSelectUrgency ==
  /\ ~showResultDialog
  /\ \E value \in Urgencies :
       /\ value # resetFormData.urgency
       /\ resetFormData' = [resetFormData EXCEPT !.urgency = value]
  /\ UNCHANGED <<resetErrors, resetLoading, result, showResultDialog,
                 resetCall, besidesReset>>

\* handleSubmit up to its await.  The submit button is disabled while
\* loading, and the browser sends the submit event only when the three
\* required inputs hold something.
ResetHandleSubmit ==
  /\ ~showResultDialog
  /\ ~resetLoading
  /\ \A f \in ResetFields : resetFormData[f] # ""
  /\ resetErrors' = resetNewErrors(resetFormData)
  /\ IF resetNewErrors(resetFormData) = NoResetErrors
     THEN /\ resetLoading' = TRUE
          /\ resetCall' = Some([ endpoint |-> "/api/tickets/auto-create",
                                 ticket_type |-> "incident",
                                 priority |-> resetFormData.urgency,
                                 sla_hours |-> sla_hours(resetFormData.urgency),
                                 res |-> "none" ])
     ELSE UNCHANGED <<resetLoading, resetCall>>
  /\ UNCHANGED <<resetFormData, result, showResultDialog, besidesReset>>

\* The ticket backend answers the auto-create request with the ticket or
\* with an error status, or it cannot be reached.
ServeAutoCreate ==
  /\ ~IsNull(resetCall)
  /\ Val(resetCall).res = "none"
  /\ \E res \in { "ok", "error", "unreachable" } :
       resetCall' = Some([Val(resetCall) EXCEPT !.res = res])
  /\ UNCHANGED <<resetFormData, resetErrors, resetLoading, result,
                 showResultDialog, besidesReset>>

\* handleSubmit from the response to the end of its finally block
CompleteResetSubmit ==
  /\ ~IsNull(resetCall)
  /\ Val(resetCall).res # "none"
  /\ result' = Some([ success |-> Val(resetCall).res = "ok" ])
  /\ showResultDialog' = TRUE
  /\ resetLoading' = FALSE
  /\ resetCall' = None
  /\ UNCHANGED <<resetFormData, resetErrors, besidesReset>>

\* handleCloseDialog: after a success the page is left for the home page,
\* and comes back as it was first shown.
HandleCloseResultDialog ==
  /\ showResultDialog
  /\ showResultDialog' = FALSE
  /\ IF Val(result).success
     THEN /\ resetFormData' = EmptyResetForm
          /\ resetErrors' = NoResetErrors
          /\ result' = None
     ELSE UNCHANGED <<resetFormData, resetErrors, result>>
  /\ UNCHANGED <<resetLoading, resetCall, besidesReset>>

(***************************************************************************)
(* Notifications page and the notification backend.                        *)
(***************************************************************************)
NotificationIds == { 1, 2 }

\* The pending notifications as the backend lists them, by ascending id.
PendingList(ids) ==
  LET one(id) == IF id \in ids THEN << [id |-> id] >> ELSE <<>>
  IN one(1) \o one(2)

\* notifications.map(n => n.id || n.notification_id)
IdsOf(list) == [ k \in 1..Len(list) |-> list[k].id ]

\* The elements of an array.
Elements(array) == { array[k] : k \in 1..Len(array) }

\* prev.filter(id => id !== notificationId)
RECURSIVE filterOut(_, _)
filterOut(array, notificationId) ==
  IF array = <<>> THEN <<>>
  ELSE IF Head(array) = notificationId
       THEN filterOut(Tail(array), notificationId)
       ELSE <<Head(array)>> \o filterOut(Tail(array), notificationId)

\* notification_ids of the request body carrying the selection even when it
\* is empty.
notification_ids_Always(selected) == Some(selected)
\* notification_ids of the request body: undefined, which JSON.stringify
\* leaves out, for an empty selection.
notification_ids(selected) ==
  IF Len(selected) > 0 THEN Some(selected) ELSE None

\* checked of the checkbox in the table head
HeaderChecked ==
  Len(notifications) > 0 /\ Len(selectedNotifications) = Len(notifications)

\* The page takes clicks: it shows the spinner alone while loading.
NotificationsShown == ~notifLoading

FetchRequest(n) == [ n |-> n, res |-> "none", data |-> <<>> ]

\* handleSelectNotification(notificationId): the checkbox of a row
HandleSelectNotification ==
  /\ NotificationsShown /\ ~confirmDialogOpen
  /\ \E notificationId \in Elements(IdsOf(notifications)) :
       selectedNotifications' =
         IF notificationId \in Elements(selectedNotifications)
         THEN filterOut(selectedNotifications, notificationId)
         ELSE Append(selectedNotifications, notificationId)
  /\ UNCHANGED <<notifications, notifLoading, processing, notifError, success,
                 confirmDialogOpen, processResult, notifFetchCalls,
                 processCall, notifCallCount, notifClickCount, pending,
                 besidesNotifications>>

\* handleSelectAll(event): a click on the checkbox in the table head, whose
\* event carries the opposite of what the checkbox showed.
HandleSelectAll ==
  /\ NotificationsShown /\ ~confirmDialogOpen
  /\ selectedNotifications' =
       IF ~HeaderChecked THEN IdsOf(notifications) ELSE <<>>
  /\ selectedNotifications' # selectedNotifications
  /\ UNCHANGED <<notifications, notifLoading, processing, notifError, success,
                 confirmDialogOpen, processResult, notifFetchCalls,
                 processCall, notifCallCount, notifClickCount, pending,
                 besidesNotifications>>

\* The button Process Notifications: setConfirmDialogOpen(true)
OpenConfirmDialog ==
  /\ NotificationsShown /\ ~confirmDialogOpen
  /\ ~processing /\ Len(notifications) # 0
  /\ confirmDialogOpen' = TRUE
  /\ UNCHANGED <<notifications, notifLoading, processing, notifError, success,
                 selectedNotifications, processResult, notifFetchCalls,
                 processCall, notifCallCount, notifClickCount, pending,
                 besidesNotifications>>

\* onClose of the dialog (a click beside it, Escape), or its Cancel button
\* while nothing is being processed.
CloseConfirmDialog ==
  /\ NotificationsShown /\ confirmDialogOpen
  /\ confirmDialogOpen' = FALSE
  /\ UNCHANGED <<notifications, notifLoading, processing, notifError, success,
                 selectedNotifications, processResult, notifFetchCalls,
                 processCall, notifCallCount, notifClickCount, pending,
                 besidesNotifications>>

\* The Refresh button: fetchNotifications up to its await.
RefreshNotifications ==
  /\ NotificationsShown /\ ~confirmDialogOpen
  /\ notifClickCount < MaxNotifClicks
  /\ notifLoading' = TRUE
  /\ notifError' = None
  /\ notifFetchCalls' = notifFetchCalls \cup { FetchRequest(notifCallCount + 1) }
  /\ notifCallCount' = notifCallCount + 1
  /\ notifClickCount' = notifClickCount + 1
  /\ UNCHANGED <<notifications, processing, success, selectedNotifications,
                 confirmDialogOpen, processResult, processCall, pending,
                 besidesNotifications>>

\* handleProcessNotifications up to its await: the Send button of the
\* dialog, disabled while processing.
HandleProcessNotifications ==
  /\ NotificationsShown /\ confirmDialogOpen
  /\ ~processing
  /\ notifClickCount < MaxNotifClicks
  /\ processing' = TRUE
  /\ notifError' = None
  /\ success' = None
  /\ processCall' = Some([ notification_ids |->
                             notification_ids(selectedNotifications),
                           res |-> "none", processed |-> 0 ])
  /\ notifClickCount' = notifClickCount + 1
  /\ UNCHANGED <<notifications, notifLoading, selectedNotifications,
                 confirmDialogOpen, processResult, notifFetchCalls,
                 notifCallCount, pending, besidesNotifications>>

\* The backend answers GET /api/notifications/pending with the
\* notifications still pending, or with an error status.
ServePendingNotifications ==
  /\ \E c \in notifFetchCalls :
       /\ c.res = "none"
       /\ \/ notifFetchCalls' = (notifFetchCalls \ {c}) \cup
               { [c EXCEPT !.res = "ok", !.data = PendingList(pending)] }
          \/ notifFetchCalls' = (notifFetchCalls \ {c}) \cup
               { [c EXCEPT !.res = "error"] }
  /\ UNCHANGED <<notifications, notifLoading, processing, notifError, success,
                 selectedNotifications, confirmDialogOpen, processResult,
                 processCall, notifCallCount, notifClickCount, pending,
                 besidesNotifications>>

\* The backend handles POST /api/notifications/process: it sends the
\* pending notifications named in the request, or all of them when the
\* request names none, and they are pending no longer; or it answers with
\* an error status and sends nothing.
ServeProcessNotifications ==
  /\ ~IsNull(processCall)
  /\ Val(processCall).res = "none"
  /\ LET named == Val(processCall).notification_ids
         sent == IF IsNull(named) THEN pending
                 ELSE Elements(Val(named)) \cap pending
     IN \/ /\ pending' = pending \ sent
           /\ processCall' = Some([Val(processCall) EXCEPT
                                     !.res = "ok",
                                     !.processed = Cardinality(sent)])
        \/ /\ processCall' = Some([Val(processCall) EXCEPT !.res = "error"])
           /\ UNCHANGED pending
  /\ UNCHANGED <<notifications, notifLoading, processing, notifError, success,
                 selectedNotifications, confirmDialogOpen, processResult,
                 notifFetchCalls, notifCallCount, notifClickCount,
                 besidesNotifications>>

\* fetchNotifications from the response to the end of its finally block
CompleteFetchNotifications ==
  /\ \E c \in notifFetchCalls :
       /\ c.res # "none"
       /\ notifFetchCalls' = notifFetchCalls \ {c}
       /\ IF c.res = "ok"
          THEN /\ notifications' = c.data
               /\ UNCHANGED notifError
          ELSE /\ notifError' = Some("Failed to fetch pending notifications")
               /\ UNCHANGED notifications
  /\ notifLoading' = FALSE
  /\ UNCHANGED <<processing, success, selectedNotifications,
                 confirmDialogOpen, processResult, processCall,
                 notifCallCount, notifClickCount, pending,
                 besidesNotifications>>

\* handleProcessNotifications from the response to the end of its finally
\* block: on success the result is kept, the selection cleared, the dialog
\* closed and fetchNotifications called; otherwise the error is set.
CompleteProcessNotifications ==
  /\ ~IsNull(processCall)
  /\ Val(processCall).res # "none"
  /\ processCall' = None
  /\ processing' = FALSE
  /\ IF Val(processCall).res = "ok"
     THEN /\ processResult' = Some(Val(processCall).processed)
          /\ success' = Some(Val(processCall).processed)
          /\ selectedNotifications' = <<>>
          /\ confirmDialogOpen' = FALSE
          /\ notifLoading' = TRUE
          /\ notifError' = None
          /\ notifFetchCalls' = notifFetchCalls \cup
                                  { FetchRequest(notifCallCount + 1) }
          /\ notifCallCount' = notifCallCount + 1
     ELSE /\ notifError' = Some("Failed to process notifications")
          /\ UNCHANGED <<processResult, success, selectedNotifications,
                         confirmDialogOpen, notifLoading, notifFetchCalls,
                         notifCallCount>>
  /\ UNCHANGED <<notifications, notifClickCount, pending,
                 besidesNotifications>>

(***************************************************************************)
(* Specifications.                                                         *)
(***************************************************************************)
InitStore ==
  /\ now = 0
  /\ tickets = <<>>

InitSLA ==
  /\ breaches = <<>>
  /\ warnings = <<>>
  /\ loading = TRUE
  /\ error = NoMessage
  /\ selectedTicket = None
  /\ ticketSLA = None
  /\ detailLoading = FALSE
  /\ detailDialogOpen = FALSE
  /\ slaCalls = {}
  /\ fetchCount = 0
  /\ detailCall = None
  /\ scanned = FALSE
  /\ slaRequests = {}

InitGroups ==
  /\ groups = <<>>
  /\ groupsLoading = TRUE
  /\ groupsCall = {}
  /\ groupFetchCount = 0
  /\ workload = None
  /\ workloadLoading = FALSE
  /\ workloadDialogOpen = FALSE
  /\ selectedGroup = None
  /\ groupError = NoMessage
  /\ workloadCall = None
  /\ groupRequests = {}

InitDefinitions ==
  /\ definitions = <<>>
  /\ definitionsLoading = TRUE
  /\ definitionsError = NoMessage
  /\ selectedDefinition = None
  /\ definitionDialogOpen = FALSE
  /\ definitionsCall = {}
  /\ definitionFetchCount = 0

InitPolicy == policyStore = Policies

\* The user is signed in.
InitSignedIn ==
  /\ token = Some(SessionToken)
  /\ location = [pathname |-> "/", search |-> ""]

\* Nobody is signed in: the Login page is up.
InitSignedOut ==
  /\ token = None
  /\ location = [pathname |-> "/", search |-> ""]

\* The ticket backend holds tickets awaiting approval; the Tickets page is
\* not on the screen.
InitTickets ==
  /\ ticketStatus = [ id \in ApprovalTicketIds |-> "pending_approval" ]
  /\ tabValue = 0
  /\ myTickets = <<>>
  /\ pendingApprovalTickets = <<>>
  /\ ticketsLoading = TRUE
  /\ showApprovalDialog = FALSE
  /\ selectedApprovalTicket = None
  /\ actionLoading = None
  /\ ticketCalls = {}
  /\ updateCalls = {}
  /\ ticketCallCount = 0
  /\ decisionCount = 0
  /\ refreshCount = 0
  /\ lastTabEvent = "none"
  /\ lastDecision = NoDecision

InitForms ==
  /\ form = None
  /\ formData = EmptyForm
  /\ errors = NoErrors
  /\ attempt = None
  /\ createCalls = {}
  /\ submitCount = 0
  /\ createdTickets = <<>>
  /\ lastAlert = NoAlert

\* KnowledgeBase mounted at /knowledge-base: the effect on [fetchArticles]
\* has issued the two requests.
InitKnowledgeBase ==
  /\ articleId = None
  /\ articles = <<>>
  /\ categories = <<>>
  /\ selectedArticle = None
  /\ searchQuery = ""
  /\ selectedCategory = ""
  /\ articlesLoading = TRUE
  /\ showArticleDialog = FALSE
  /\ kbCalls = KbListRequests(1, "", "")
  /\ kbCallCount = 1
  /\ kbActionCount = 0
  /\ views = [ id \in ArticleIds |-> 0 ]
  /\ helpful_votes = [ id \in ArticleIds |-> 0 ]
  /\ opens = [ id \in ArticleIds |-> 0 ]
  /\ viewRequests = [ id \in ArticleIds |-> 0 ]

InitReset ==
  /\ resetFormData = EmptyResetForm
  /\ resetErrors = NoResetErrors
  /\ resetLoading = FALSE
  /\ result = None
  /\ showResultDialog = FALSE
  /\ resetCall = None

\* Notifications mounted: the effect on [fetchNotifications] has issued the
\* request, and two notifications are pending.
InitNotifications ==
  /\ notifications = <<>>
  /\ notifLoading = TRUE
  /\ processing = FALSE
  /\ notifError = None
  /\ success = None
  /\ selectedNotifications = <<>>
  /\ confirmDialogOpen = FALSE
  /\ processResult = None
  /\ notifFetchCalls = { FetchRequest(1) }
  /\ processCall = None
  /\ notifCallCount = 1
  /\ notifClickCount = 0
  /\ pending = NotificationIds

\* The pages besides the Tickets & Approvals page, as they are first shown.
InitFurtherPages ==
  InitForms /\ InitKnowledgeBase /\ InitReset /\ InitNotifications

InitOtherPages == InitTickets /\ InitFurtherPages

InitPages ==
  /\ InitStore /\ InitSLA /\ InitDefinitions /\ InitGroups /\ InitPolicy
  /\ InitOtherPages

InitRest == InitPolicy /\ InitSignedIn /\ InitOtherPages

Init == InitStore /\ InitSLA /\ InitDefinitions /\ InitGroups /\ InitRest

\* The SLA dashboard over the ticket store and the clock.
NextSLA ==
  \/ Tick
  \/ CreateTicket(DashboardTicketIds)
  \/ Respond
  \/ Resolve
  \/ FetchSLAData
  \/ ServeBreaches
  \/ ServeWarnings
  \/ RejectFetchSLAData
  \/ CompleteFetchSLAData
  \/ DismissError
  \/ HandleViewDetails
  \/ ServeTicketSLA
  \/ CompleteFetchTicketSLA
  \/ HandleCloseDialog

SpecSLA == Init /\ [][NextSLA]_vars

\* The assignment groups page.
NextGroups ==
  \/ FetchGroups
  \/ ServeGroups
  \/ CompleteFetchGroups
  \/ HandleViewWorkload
  \/ ServeWorkload
  \/ CompleteFetchWorkload
  \/ HandleCloseWorkload

SpecGroups == Init /\ [][NextGroups]_vars

\* The evaluator over the ticket store and the clock.
NextEval ==
  \/ Tick
  \/ CreateTicket(TicketIds)
  \/ Respond
  \/ Resolve

SpecEval == Init /\ [][NextEval]_vars

\* The SLA definitions page, with the evaluator working from the policies
\* it shows.
NextDefinitions ==
  \/ Tick
  \/ CreateTicket(DashboardTicketIds)
  \/ Respond
  \/ Resolve
  \/ FetchDefinitions
  \/ ServeDefinitions
  \/ CompleteFetchDefinitions
  \/ HandleViewDefinition
  \/ HandleCloseDefinition

SpecDefinitions == Init /\ [][NextDefinitions]_vars

\* The policy store.
NextPolicy ==
  \/ AddPolicy
  \/ SetPolicyActive

SpecPolicy == Init /\ [][NextPolicy]_vars

\* The session: signing in and out, the routes, and the requests of the SLA
\* dashboard and of the assignment groups page.
InitSession == InitPages /\ InitSignedOut

NextSession ==
  \/ Login
  \/ Logout
  \/ HandleNavigation
  \/ Tick
  \/ CreateTicket(DashboardTicketIds)
  \/ DashboardFetchSLAData
  \/ ServeBreaches
  \/ ServeWarnings
  \/ CompleteFetchSLAData
  \/ DashboardHandleViewDetails
  \/ GroupsFetchGroups
  \/ ServeGroups
  \/ CompleteFetchGroups
  \/ GroupsHandleViewWorkload

SpecSession == InitSession /\ [][NextSession]_vars

\* The Tickets & Approvals page over the ticket backend.
NextTickets ==
  \/ NavigateMyTickets
  \/ NavigateHome
  \/ HandleTabChange
  \/ HandleRefresh
  \/ ServeTicketList
  \/ CompleteFetchTickets
  \/ CompleteFetchPendingApprovalTickets

SpecTickets == Init /\ [][NextTickets]_vars

\* The approvals of the Tickets & Approvals page: the page has been reached
\* with the header button Approvals and has requested its lists.
InitApprovals ==
  /\ InitStore /\ InitSLA /\ InitDefinitions /\ InitGroups /\ InitPolicy
  /\ token = Some(SessionToken)
  /\ location = [pathname |-> MyTicketsPath, search |-> ApprovalsSearch]
  /\ ticketStatus = [ id \in ApprovalTicketIds |-> "pending_approval" ]
  /\ tabValue = 1
  /\ myTickets = <<>>
  /\ pendingApprovalTickets = <<>>
  /\ ticketsLoading = TRUE
  /\ showApprovalDialog = FALSE
  /\ selectedApprovalTicket = None
  /\ actionLoading = None
  /\ ticketCalls = ListRequests(1)
  /\ updateCalls = {}
  /\ ticketCallCount = 1
  /\ decisionCount = 0
  /\ refreshCount = 0
  /\ lastTabEvent = "navigate"
  /\ lastDecision = NoDecision
  /\ InitFurtherPages

NextApprovals ==
  \/ HandleRefresh
  \/ ServeTicketList
  \/ CompleteFetchTickets
  \/ CompleteFetchPendingApprovalTickets
  \/ HandleDirectAction
  \/ HandleApprovalAction
  \/ CancelApprovalDialog
  \/ SubmitApproval
  \/ ServeUpdate
  \/ CompleteUpdate
  \/ CompleteNotify

SpecApprovals == InitApprovals /\ [][NextApprovals]_vars

\* The decisions on the approvals tab: the page has been reached with the
\* header button Approvals and both of its lists have arrived.  The lists
\* requested after a decision are still on their way.
InitDecisions ==
  /\ InitStore /\ InitSLA /\ InitDefinitions /\ InitGroups /\ InitPolicy
  /\ token = Some(SessionToken)
  /\ location = [pathname |-> MyTicketsPath, search |-> ApprovalsSearch]
  /\ ticketStatus = [ id \in ApprovalTicketIds |-> "pending_approval" ]
  /\ tabValue = 1
  /\ myTickets = MyTicketList
  /\ pendingApprovalTickets = TicketList(ticketStatus, { "pending_approval" })
  /\ ticketsLoading = FALSE
  /\ showApprovalDialog = FALSE
  /\ selectedApprovalTicket = None
  /\ actionLoading = None
  /\ ticketCalls = {}
  /\ updateCalls = {}
  /\ ticketCallCount = 1
  /\ decisionCount = 0
  /\ refreshCount = 0
  /\ lastTabEvent = "navigate"
  /\ lastDecision = NoDecision
  /\ InitFurtherPages

NextDecisions ==
  \/ HandleDirectAction
  \/ HandleApprovalAction
  \/ CancelApprovalDialog
  \/ SubmitApproval
  \/ ServeUpdate
  \/ CompleteUpdate
  \/ CompleteNotify

SpecDecisions == InitDecisions /\ [][NextDecisions]_vars

\* The request forms.
NextForms ==
  \/ OpenForm
  \/ HandleInputChange
  \/ HandleSubmit
  \/ ServeCreateTicket
  \/ CompleteCreateTicket
  \/ LeaveForm

SpecForms == Init /\ [][NextForms]_vars

\* The knowledge base.
NextKnowledgeBase ==
  \/ OpenArticle
  \/ CloseArticle
  \/ HandleSearchChange
  \/ HandleCategoryFilter
  \/ MarkAsHelpful
  \/ ServeKnowledgeBase
  \/ CompleteFetchArticles
  \/ CompleteFetchCategories
  \/ CompleteFetchArticle
  \/ CompleteMarkAsHelpful

SpecKnowledgeBase == Init /\ [][NextKnowledgeBase]_vars

\* The password reset form.
NextReset ==
  \/ ResetHandleInputChange
  \/ ResetSelectUrgency
  \/ ResetHandleSubmit
  \/ ServeAutoCreate
  \/ CompleteResetSubmit
  \/ HandleCloseResultDialog

SpecReset == Init /\ [][NextReset]_vars

\* The notifications page.
NextNotifications ==
  \/ HandleSelectNotification
  \/ HandleSelectAll
  \/ OpenConfirmDialog
  \/ CloseConfirmDialog
  \/ RefreshNotifications
  \/ HandleProcessNotifications
  \/ ServePendingNotifications
  \/ ServeProcessNotifications
  \/ CompleteFetchNotifications
  \/ CompleteProcessNotifications

SpecNotifications == Init /\ [][NextNotifications]_vars


(***************************************************************************)
(* Properties of the SLA dashboard, the evaluator and the aggregator.      *)
(***************************************************************************)
PolicyOf(ticket) == find_policy(ticket.category, ticket.priority)

ListedIds(list) == { list[i].ticket_id : i \in DOMAIN list }

\* C1: breach precedence.  No ticket is listed in both the breaches list and
\* the warnings list of the dashboard, so that Total At Risk counts every
\* ticket at risk once.
C1_NoTicketInBothLists ==
  /\ ListedIds(breaches) \cap ListedIds(warnings) = {}
  /\ TotalAtRisk = Cardinality(ListedIds(breaches) \cup ListedIds(warnings))

\* C2: a ticket whose resolution target has passed and that is not resolved
\* evaluates to breached with remaining_minutes = target_minutes -
\* elapsed_minutes < 0, and a negative remaining time is shown as Overdue,
\* both for the evaluation itself and in the Time Remaining field of the
\* detail dialog.
C2_PastDueIsBreachedAndOverdue ==
  /\ \A id \in DOMAIN tickets :
       LET ticket == tickets[id]
           policy == PolicyOf(ticket)
           e == evaluate(ticket, policy, "resolution", now)
       IN  ( /\ ~IsNull(policy)
             /\ IsNull(ticket.resolved_at)
             /\ now - ticket.created_at > Val(policy).resolution_target_minutes )
           => /\ e.status = "breached"
              /\ e.remaining_minutes =
                   Val(policy).resolution_target_minutes - (now - ticket.created_at)
              /\ e.remaining_minutes = e.target_minutes - e.elapsed_minutes
              /\ e.remaining_minutes < 0
              /\ formatTimeRemaining(Some(e.remaining_minutes)).text = "Overdue"
  /\ ( /\ DetailShown
       /\ ~IsNull(Val(ticketSLA).time_remaining_minutes)
       /\ Val(Val(ticketSLA).time_remaining_minutes) < 0 )
     => DetailTimeRemaining.text = "Overdue"

\* Scenario B on screen: a ticket 70 minutes old with a 60 minute target is
\* breached with -10 minutes remaining, and the dialog shows Overdue for it.
C2_Witness ==
  /\ \E id \in DOMAIN tickets :
       /\ ~IsNull(PolicyOf(tickets[id]))
       /\ Val(PolicyOf(tickets[id])).resolution_target_minutes = 60
       /\ IsNull(tickets[id].resolved_at)
       /\ now - tickets[id].created_at = 70
       /\ evaluate(tickets[id], PolicyOf(tickets[id]), "resolution", now).remaining_minutes = -10
  /\ DetailShown
  /\ Val(ticketSLA).time_remaining_minutes = Some(-10)
  /\ DetailTimeRemaining.text = "Overdue"

LaterInstants == { t \in Instants : t >= now }

OnTime(ticket, policy, metric) ==
  Val(CompletedAt(ticket, metric)) <= ticket.created_at + TargetMinutes(policy, metric)

\* C3: a completed metric is time-independent.  For every ticket with a
\* policy and every metric whose completion timestamp is set, the status is
\* on_track at the current and at every later time when the completion was
\* not after the due time, and breached at the current and every later time
\* when it was.
C3_CompletedMetricIsTimeIndependent ==
  \A id \in DOMAIN tickets : \A m \in Metrics : \A t \in LaterInstants :
    LET ticket == tickets[id]
        policy == PolicyOf(ticket)
    IN  (~IsNull(policy) /\ ~IsNull(CompletedAt(ticket, m)))
        => evaluate(ticket, policy, m, t).status =
             IF OnTime(ticket, Val(policy), m) THEN "on_track" ELSE "breached"

\* One ticket resolved before its due time and now past it, another one
\* resolved after its due time.
C3_Witness ==
  /\ \E id \in DOMAIN tickets :
       /\ ~IsNull(PolicyOf(tickets[id]))
       /\ ~IsNull(tickets[id].resolved_at)
       /\ OnTime(tickets[id], Val(PolicyOf(tickets[id])), "resolution")
       /\ now > tickets[id].created_at
                  + Val(PolicyOf(tickets[id])).resolution_target_minutes
  /\ \E id \in DOMAIN tickets :
       /\ ~IsNull(PolicyOf(tickets[id]))
       /\ ~IsNull(tickets[id].resolved_at)
       /\ ~OnTime(tickets[id], Val(PolicyOf(tickets[id])), "resolution")

ThresholdOf(policy) ==
  IF IsNull(policy.warning_threshold_percent) THEN 75
  ELSE Val(policy.warning_threshold_percent)

\* C4: an uncompleted metric that is not breached is warning exactly when
\* remaining_minutes <= target_minutes * (1 - warning_threshold_percent/100)
\* and on_track otherwise; the threshold is 75 when the policy does not set
\* it, which is also what the definitions dialog shows for such a policy.
C4_WarningThreshold ==
  /\ \A id \in DOMAIN tickets : \A m \in Metrics :
       LET ticket == tickets[id]
           policy == PolicyOf(ticket)
           e == evaluate(ticket, policy, m, now)
       IN  ( /\ ~IsNull(policy)
             /\ IsNull(CompletedAt(ticket, m))
             /\ e.remaining_minutes >= 0 )
           => e.status =
                IF e.remaining_minutes * 100
                     <= e.target_minutes * (100 - ThresholdOf(Val(policy)))
                THEN "warning" ELSE "on_track"
  /\ DefinitionShown
     => LET d == Val(selectedDefinition)
        IN  /\ IsNull(d.warning_threshold)
               => WarningThresholdText(d) =
                    [text |-> "% of target", a |-> DefaultWarningThreshold, b |-> 0]
            /\ (~IsNull(d.warning_threshold) /\ Val(d.warning_threshold) > 0)
               => WarningThresholdText(d) =
                    [text |-> "%", a |-> Val(d.warning_threshold), b |-> 0]

\* Scenario A under a policy that leaves the threshold unset: target 60,
\* elapsed 50, remaining 10 <= 15, warning; and the dialog shows that policy.
C4_Witness ==
  /\ \E id \in DOMAIN tickets :
       LET e == evaluate(tickets[id], PolicyOf(tickets[id]), "resolution", now)
       IN  /\ ~IsNull(PolicyOf(tickets[id]))
           /\ IsNull(Val(PolicyOf(tickets[id])).warning_threshold_percent)
           /\ IsNull(tickets[id].resolved_at)
           /\ e.target_minutes = 60
           /\ e.elapsed_minutes = 50
           /\ e.remaining_minutes = 10
           /\ e.status = "warning"
           /\ DefinitionShown
           /\ Val(selectedDefinition).id = Val(PolicyOf(tickets[id])).id
           /\ IsNull(Val(selectedDefinition).warning_threshold)

PercentTexts == { ToString(n) \o "%" : n \in 0..100 }

\* C5: the compliance rate on screen is a percentage between 0 and 100 or
\* the sentinel N/A, never NaN and never negative.
C5_ComplianceRateInRange ==
  CardsShown => ComplianceRate \in PercentTexts \cup {"N/A"}

\* The cards are on screen with a breach listed, while the store holds no
\* resolved ticket.
C5_Witness ==
  /\ CardsShown
  /\ BreachesCard > 0
  /\ \A id \in DOMAIN tickets : IsNull(tickets[id].resolved_at)
  /\ ComplianceRate = "N/A"

NoResolvedTicket == \A id \in DOMAIN tickets : IsNull(tickets[id].resolved_at)

C8_NoValidLookingNumbersOnError ==
  ( /\ fetchCount > 0
    /\ ~scanned
    /\ \E id \in DOMAIN tickets : IsBreach(tickets[id], now) )
  => ~( /\ CardsShown
        /\ BreachesCard = 0
        /\ TotalAtRisk = 0
        /\ ComplianceRate = "100%" )


(***************************************************************************)
(* Properties of the workload dialog.                                      *)
(***************************************************************************)
\* The bucket a status label names, whatever its capitalisation.
LabelBucket(label) ==
  IF label \in {"Overloaded", "overloaded"} THEN "overloaded"
  ELSE IF label \in {"Busy", "busy"} THEN "busy"
  ELSE IF label \in {"Available", "available"} THEN "available"
  ELSE "other"

C10_PercentIsMonotoneNumber ==
  /\ \A r \in WorkloadRows : ~IsNaN(r.percent) /\ r.percent.n >= 0
  /\ \A r1, r2 \in WorkloadRows :
       LessEq(r1.assigned, r2.assigned) => LessEq(r1.percent, r2.percent)

\* C11: when the workload on screen comes with no configured capacity
\* (max_capacity absent or zero) no percentage is computed from a substituted
\* capacity: no agent row is drawn and InvalidCapacityConfig is reported.
C11_UnconfiguredCapacityIsReported ==
  (WorkloadShown /\ Falsy(Val(workload).max_capacity)) =>
     /\ WorkloadRows = {}
     /\ groupError = "InvalidCapacityConfig"

(***************************************************************************)
(* Properties of the policy store.                                         *)
(***************************************************************************)
LookupCategories == PolicyCategories \cup { "network" }

\* The active policies of the store defined for exactly this scope.
ActiveFor(category, priority) ==
  { q \in policyStore :
      q.active /\ q.category = category /\ q.priority = priority }

\* C12: find_policy(category, priority) returns an active policy of the most
\* specific tier that has one: the exact (category, priority) policy, else
\* the policy of the category for any priority, else the policy of the
\* priority for any category, else the global default, else nothing.
C12_MostSpecificPolicy ==
  \A c \in LookupCategories, p \in PolicyPriorities :
     LET r == find_policy_in(policyStore, c, p)
         tiers == << ActiveFor(Some(c), Some(p)), ActiveFor(Some(c), None),
                     ActiveFor(None, Some(p)), ActiveFor(None, None) >>
         first == { i \in 1..4 :
                      tiers[i] # {} /\ \A j \in 1..(i - 1) : tiers[j] = {} }
     IN  IF first = {} THEN IsNull(r)
         ELSE ~IsNull(r) /\ \A i \in first : Val(r) \in tiers[i]

\* A lookup with no exact policy, where a policy of the category and a policy
\* of the priority are both active: the policy of the category is returned.
\* A lookup that no active policy matches returns nothing.
C12_Witness ==
  /\ ActiveFor(Some("hardware"), Some("low")) = {}
  /\ ActiveFor(Some("hardware"), None) # {}
  /\ ActiveFor(None, Some("low")) # {}
  /\ Val(find_policy_in(policyStore, "hardware", "low")).category = Some("hardware")
  /\ IsNull(Val(find_policy_in(policyStore, "hardware", "low")).priority)
  /\ IsNull(find_policy_in(policyStore, "network", "high"))

(***************************************************************************)
(* Properties of a scan over tickets without a policy.                     *)
(***************************************************************************)
Unmatched == { id \in DOMAIN tickets : IsNull(PolicyOf(tickets[id])) }

\* The store without the given tickets.
Without(store, ids) == [ id \in (DOMAIN store) \ ids |-> store[id] ]

\* C13: a ticket that no policy matches does not fail the scan.  Both its
\* metrics are not_applicable, it is on neither the breach list nor the
\* warning list, its detail is still served and drawn with a chip reading
\* not_applicable, and the lists are those of the scan without it.
C13_UnmatchedTicketIsNotApplicable ==
  /\ \A id \in Unmatched :
       /\ \A e \in Evaluations(tickets[id], now) : e.status = "not_applicable"
       /\ id \notin ListedIds(ScanBreaches(tickets, now))
       /\ id \notin ListedIds(ScanWarnings(tickets, now))
       /\ LET chip == getStatusChip(Some(TicketDetail(tickets[id], now).status))
          IN  /\ chip.label = "not_applicable"
              /\ chip.color = "default"
              /\ IsNull(chip.icon)
  /\ ScanBreaches(tickets, now) = ScanBreaches(Without(tickets, Unmatched), now)
  /\ ScanWarnings(tickets, now) = ScanWarnings(Without(tickets, Unmatched), now)

\* A scan over a ticket without a policy, older than every target, and a
\* breached ticket: the breached ticket is listed, the other is not.
C13_Witness ==
  /\ \E id \in Unmatched : IsOpen(tickets[id]) /\ now - tickets[id].created_at >= 70
  /\ \E id \in (DOMAIN tickets) \ Unmatched :
       id \in ListedIds(ScanBreaches(tickets, now))
  /\ Len(ScanBreaches(tickets, now)) = 1
  /\ Len(ScanWarnings(tickets, now)) = 0

(***************************************************************************)
(* Properties of the order of the lists.                                   *)
(***************************************************************************)
\* The lists of a scan as sequences of (ticket id, remaining minutes).
BreachOrder ==
  LET list == ScanBreaches(tickets, now)
  IN  [ i \in DOMAIN list |->
          [ticket_id |-> list[i].ticket_id,
           remaining_minutes |-> 0 - list[i].overdue_minutes] ]
WarningOrder ==
  LET list == ScanWarnings(tickets, now)
  IN  [ i \in DOMAIN list |->
          [ticket_id |-> list[i].ticket_id,
           remaining_minutes |-> list[i].minutes_remaining] ]

Ascending(list) ==
  \A i, j \in DOMAIN list :
     i < j =>
       \/ list[i].remaining_minutes < list[j].remaining_minutes
       \/ /\ list[i].remaining_minutes = list[j].remaining_minutes
          /\ list[i].ticket_id < list[j].ticket_id

\* The position of an item in a list of distinct items.
Position(list, item) == CHOOSE i \in DOMAIN list : list[i] = item

KeepsOrder(list, filtered) ==
  /\ \A i \in DOMAIN filtered : \E k \in DOMAIN list : list[k] = filtered[i]
  /\ \A i, j \in DOMAIN filtered :
       i < j => Position(list, filtered[i]) < Position(list, filtered[j])

\* C14: the breach list and the warning list of a scan are each in ascending
\* order of remaining minutes, ties in ascending order of ticket id, and the
\* rows the search filter keeps are in the order the list has them.
C14_ListsAscendingAndFilterKeepsOrder ==
  /\ Ascending(BreachOrder)
  /\ Ascending(WarningOrder)
  /\ \A term \in SearchTerms :
       /\ KeepsOrder(ScanBreaches(tickets, now),
                     filterData(ScanBreaches(tickets, now), term))
       /\ KeepsOrder(ScanWarnings(tickets, now),
                     filterData(ScanWarnings(tickets, now), term))

\* Two breached tickets, the one with the higher id more overdue and so first;
\* a search that matches both keeps both rows, a search for the number of
\* the first ticket keeps one.
C14_Witness ==
  /\ Len(BreachOrder) = 2
  /\ BreachOrder[1].ticket_id = 2
  /\ BreachOrder[1].remaining_minutes < BreachOrder[2].remaining_minutes
  /\ Len(filterData(ScanBreaches(tickets, now), << "t", "k" >>)) = 2
  /\ Len(filterData(ScanBreaches(tickets, now), << "1" >>)) = 1

(***************************************************************************)
(* Properties of the session.                                              *)
(***************************************************************************)
\* C15: every request the SLA dashboard has issued (breaches, warnings,
\* ticket detail) and every request the assignment groups page has issued
\* (list, workload) carries a Bearer credential that is the non-empty token
\* of a session: none was issued while the session had no token.
C15_RequestsCarryToken ==
  \A r \in slaRequests \cup groupRequests :
     /\ r.authorization.scheme = "Bearer"
     /\ r.authorization.credentials = SessionToken

\* All five endpoints have been requested, and the user has signed out
\* since.
C15_Witness ==
  /\ { r.endpoint : r \in slaRequests \cup groupRequests } =
       { "/api/sla/check-breaches", "/api/sla/warnings", "/api/sla/ticket/{id}",
         "/api/assignment-groups", "/api/assignment-groups/{id}/workload" }
  /\ IsNull(token)

(***************************************************************************)
(* Properties of the Tickets & Approvals page.                             *)
(***************************************************************************)
\* C16: the tab of the Tickets page follows the URL.  When the page was last
\* reached by a navigation (a header button), the approvals tab is shown if
\* the URL carries tab=approvals and the tickets tab if it does not, whatever
\* tab had been clicked before.
C16_TabFollowsURL ==
  (MyTicketsMounted /\ lastTabEvent = "navigate") =>
     tabValue = (IF location.search = ApprovalsSearch THEN 1 ELSE 0)

\* The tickets the pending-approvals list of the page shows.
ListedPending == { ticket.id : ticket \in Rows(pendingApprovalTickets) }

\* Nothing of the page is in flight: no decision and no list request.
Settled == MyTicketsMounted /\ updateCalls = {} /\ ticketCalls = {}

\* C20: ticket status follows the approval decision.  Every status update in
\* flight carries 'approved' for an approve action and 'rejected' for a
\* reject action, and once the decisions and the refreshes they start have
\* completed, no ticket that the backend holds as decided is still on the
\* pending-approvals list.
C20_DecidedTicketLeavesPending ==
  /\ \A u \in updateCalls :
       u.status = (IF u.action = "approve" THEN "approved" ELSE "rejected")
  /\ Settled =>
       \A id \in ListedPending : ticketStatus[id] = "pending_approval"

\* C17: a valid Password Reset, Problem Report or Business App form that was
\* submitted creates a ticket through the ticket-creation request: the user
\* is told of a success only with the number of a ticket the backend
\* created, of type incident for the password and problem forms and of
\* type service_request for the business form.
C17_SubmittedFormCreatesTicket ==
  (HasOnSubmit(lastAlert.formType) /\ lastAlert.kind \in {"submitted", "created"}) =>
     /\ lastAlert.kind = "created"
     /\ lastAlert.ticket_number \in 1..Len(createdTickets)
     /\ createdTickets[lastAlert.ticket_number].ticket_type =
          (IF lastAlert.formType = "business" THEN "service_request"
           ELSE "incident")

\* The fields of a form that are blank although the form needs them.
FailingFields(formType, data) ==
  { f \in FormFields :
      /\ trim(data[f]) = ""
      /\ f = "contactNumber" => requiresContact(formType) }

\* C18: the form is submitted only when the two descriptions are non-blank
\* and, on every form type that requires contact information, the contact
\* number is non-blank; otherwise nothing is submitted and every failing
\* field has its error message.
C18_SubmitsOnlyValidForms ==
  ~IsNull(attempt) =>
     LET a == Val(attempt)
         failing == FailingFields(a.formType, a.formData)
     IN /\ a.submitted <=> failing = {}
        /\ ~a.submitted => \A f \in failing : errors[f] # ""

\* C19: view tracking counts openings: for every article, the requests
\* GET /knowledge-base/{id} issued are as many as the times the user opened
\* the article; marking as helpful, closing, searching and filtering issue
\* none.
C19_OneViewRequestPerOpening ==
  \A id \in ArticleIds : viewRequests[id] = opens[id]

\* C21: the article dialog follows the URL: while the page is at
\* /knowledge-base (no article opened, or closeArticle has run since the last
\* opening) the dialog is closed and no article is selected, also when an
\* article request was in flight at the time of closing; and an open dialog
\* shows the article of the URL.
C21_DialogFollowsURL ==
  /\ IsNull(articleId) => (~showArticleDialog /\ IsNull(selectedArticle))
  /\ showArticleDialog =>
       (~IsNull(selectedArticle) /\ Some(Val(selectedArticle).id) = articleId)

\* The ids of a list of articles, in the order of the list.
ArticleIdsOf(list) == [ k \in 1..Len(list) |-> list[k].id ]

\* No list request of the page is awaiting its response or its completion.
NoListRequestInFlight == \A c \in kbCalls : c.kind # "list"

ListsRequested(n) ==
  \A kind \in { "tickets", "pending" } :
    \E c \in ticketCalls : c.n = n /\ c.kind = kind

\* C22: the notification to MuleSoft is sent only after the status update of
\* the decision succeeded, never after a failed one, and at most once for a
\* decision; and whatever MuleSoft does with it (ok, error status,
\* unreachable), the decision ends with both lists requested again and the
\* success alerted.
C22_NotificationFollowsUpdate ==
  /\ \A u \in updateCalls :
       /\ u.notified <= 1
       /\ u.notified = 1 =>
            /\ ~IsNull(u.res) /\ Val(u.res).ok
            /\ u.stage = "notify"
  /\ lastDecision.notified <= 1
  /\ lastDecision.update = "failed" =>
       /\ lastDecision.notified = 0
       /\ lastDecision.muleSoft = "none"
       /\ lastDecision.alert = "error"
  /\ lastDecision.update = "ok" =>
       /\ lastDecision.notified = 1
       /\ lastDecision.muleSoft \in MuleSoftOutcomes
       /\ lastDecision.alert = "success"
       /\ ListsRequested(lastDecision.lists)

\* A decision has ended whose notification MuleSoft did not take, while a
\* ticket is still pending approval.
C22_Witness ==
  /\ lastDecision.update = "ok"
  /\ lastDecision.muleSoft \in { "failed", "unreachable" }
  /\ lastDecision.alert = "success"
  /\ \E id \in ApprovalTicketIds : ticketStatus[id] = "pending_approval"

\* C26: for a ticket, at most one approve or reject status update is in
\* flight at a time, whether it was issued by the buttons of the table or by
\* those of the approval dialog.
C26_OneDecisionInFlightPerTicket ==
  \A u1, u2 \in updateCalls :
    (u1.ticket_id = u2.ticket_id /\ u1.stage = "put" /\ u2.stage = "put")
      => u1 = u2

\* C23: the sla_hours sent with a password reset ticket are the hours the
\* form displays for the chosen urgency: critical 1, high 4, medium 24,
\* low 48.
C23_SentSLAMatchesDisplayed ==
  ~IsNull(resetCall) =>
     Val(resetCall).sla_hours = DisplayedSLAHours(Val(resetCall).priority)

\* A process request has just been issued.
ProcessIssued == IsNull(processCall) /\ ~IsNull(processCall')

\* The handler of a process request has just ended.
ProcessEnded == ~IsNull(processCall) /\ IsNull(processCall')

\* C24: a process request carries exactly the selected ids when the
\* selection is non-empty and no id list when it is empty; when it succeeds
\* the selection is cleared, the dialog closed and the pending list
\* requested again; when it fails the selection, the dialog and the list
\* stay as they were and an error is set; either way processing ends false.
C24_ProcessStep ==
  /\ ProcessIssued =>
       /\ processing'
       /\ IF selectedNotifications # <<>>
          THEN Val(processCall').notification_ids = Some(selectedNotifications)
          ELSE IsNull(Val(processCall').notification_ids)
  /\ ProcessEnded =>
       /\ ~processing'
       /\ IF Val(processCall).res = "ok"
          THEN /\ selectedNotifications' = <<>>
               /\ ~confirmDialogOpen'
               /\ \E c \in notifFetchCalls' \ notifFetchCalls : c.res = "none"
          ELSE /\ selectedNotifications' = selectedNotifications
               /\ confirmDialogOpen' = confirmDialogOpen
               /\ notifications' = notifications
               /\ ~IsNull(notifError')

C24_ProcessingFrame == [][C24_ProcessStep]_vars

\* A process request for a chosen notification has failed: the selection
\* and the open dialog are still there, with the error.
C24_Witness ==
  /\ notifError = Some("Failed to process notifications")
  /\ selectedNotifications # <<>>
  /\ confirmDialogOpen
  /\ ~processing

\* C25: the selected ids are a duplicate-free subset of the ids of the
\* listed notifications, so that the checkbox in the table head is checked
\* exactly when every listed notification is selected.
C25_SelectionWithinList ==
  /\ Cardinality(Elements(selectedNotifications)) = Len(selectedNotifications)
  /\ Elements(selectedNotifications) \subseteq Elements(IdsOf(notifications))
  /\ HeaderChecked <=>
       /\ Len(notifications) > 0
       /\ Elements(IdsOf(notifications)) \subseteq
            Elements(selectedNotifications)

====
